---- MODULE Spec2Model ----
(***************************************************************************)
(* Numeric citation validation and renumbering                             *)
(* (src/Referencenumvalidation.py, with its copy in src/app_server.py).    *)
(*                                                                         *)
(* A text is a sequence of one-character strings.  A document is a body of *)
(* elements (paragraphs and tables); a paragraph has a style name and a    *)
(* sequence of runs; a run has a character style name, the direct          *)
(* superscript property and a text.                                        *)
(***************************************************************************)
EXTENDS Integers, Sequences, FiniteSets, TLC

\* ------------------------------------------------------------------ bounds
\* Longest list of numbers handed to the pure functions.
MaxLen == 4
\* Largest number in those lists (two-digit numbers included).
MaxNum == 10
\* Longest document body (number of body elements).
MaxParas == 3

\* paragraphs of running text and of bibliography in a name-year document
MaxCites == 2

MaxRefs == 2

\* paragraphs of a document the marker scan is tried on
MaxScan == 3

\* entries of a bibliography duplicates are looked for in
MaxEntries == 3

\* longest author text handed to normalize_citation_key
MaxAuthor == 4

\* most authors of a reference handed to check_et_al_misuse
MaxAuthors == 3

\* body elements of a document the bibliography reorder is tried on
MaxReorder == 4

\* ------------------------------------------------------- characters, text
Digits == <<"0", "1", "2", "3", "4", "5", "6", "7", "8", "9">>

\* \d of the patterns
IsDigit(c) == \E d \in 1..10 : Digits[d] = c

\* \s of the patterns (the model's texts use the blank and the tab only)
IsSpace(c) == c = " " \/ c = "\t"

\* [-–—] of the patterns (the model's texts use the hyphen only)
IsDash(c) == c = "-"

\* [\d,\-–—\s] : the characters a citation may consist of
IsCiteChar(c) == IsDigit(c) \/ c = "," \/ IsDash(c) \/ IsSpace(c)

DigitVal(c) == (CHOOSE d \in 1..10 : Digits[d] = c) - 1

\* int(s) for a non-empty sequence of digits
RECURSIVE int(_)
int(s) ==
    IF Len(s) = 0 THEN 0
    ELSE 10 * int(SubSeq(s, 1, Len(s) - 1)) + DigitVal(s[Len(s)])

\* str(n) for n >= 0
RECURSIVE str(_)
str(n) ==
    IF n < 10 THEN <<Digits[n + 1]>>
    ELSE str(n \div 10) \o <<Digits[(n % 10) + 1]>>

\* range(s, e + 1) as a list
RECURSIVE range(_, _)
range(s, e) == IF s > e THEN <<>> ELSE <<s>> \o range(s + 1, e)

\* s.strip()
RECURSIVE strip(_)
strip(s) ==
    IF Len(s) = 0 THEN s
    ELSE IF IsSpace(s[1]) THEN strip(Tail(s))
    ELSE IF IsSpace(s[Len(s)]) THEN strip(SubSeq(s, 1, Len(s) - 1))
    ELSE s

\* the set of the elements of a list
Range(s) == {s[i] : i \in 1..Len(s)}

\* sorted(S) for a finite set of integers
RECURSIVE sorted(_)
sorted(S) ==
    IF S = {} THEN <<>>
    ELSE LET m == CHOOSE x \in S : \A y \in S : x <= y
         IN <<m>> \o sorted(S \ {m})

\* ", ".join(parts), with the separator given
RECURSIVE join(_, _)
join(sep, parts) ==
    IF Len(parts) = 0 THEN <<>>
    ELSE IF Len(parts) = 1 THEN parts[1]
    ELSE parts[1] \o sep \o join(sep, Tail(parts))

\* ------------------------------------------------------------ get_numbers
\* first index >= i that holds no digit
RECURSIVE DigitsEnd(_, _)
DigitsEnd(text, i) ==
    IF i <= Len(text) /\ IsDigit(text[i]) THEN DigitsEnd(text, i + 1) ELSE i

\* first index >= i that holds no whitespace
RECURSIVE SpaceEnd(_, _)
SpaceEnd(text, i) ==
    IF i <= Len(text) /\ IsSpace(text[i]) THEN SpaceEnd(text, i + 1) ELSE i

\* findall of (\d+)\s*[-–—]\s*(\d+)|(\d+) from index i on
RECURSIVE get_numbers_from(_, _)
get_numbers_from(text, i) ==
    IF i > Len(text) THEN <<>>
    ELSE IF ~IsDigit(text[i]) THEN get_numbers_from(text, i + 1)
    ELSE LET e1 == DigitsEnd(text, i)
             d  == SpaceEnd(text, e1)
             s2 == SpaceEnd(text, d + 1)
             isRange == /\ d <= Len(text)
                        /\ IsDash(text[d])
                        /\ s2 <= Len(text)
                        /\ IsDigit(text[s2])
             e2 == DigitsEnd(text, s2)
             s  == int(SubSeq(text, i, e1 - 1))
             e  == int(SubSeq(text, s2, e2 - 1))
         IN IF isRange
            THEN (IF s <= e THEN range(s, e) ELSE <<>>) \o get_numbers_from(text, e2)
            ELSE <<s>> \o get_numbers_from(text, e1)

get_numbers(text) == get_numbers_from(text, 1)

\* --------------------------------------------------------- format_numbers
\* FormatPart with the range form taken from two numbers on
FormatPart_RangeFromTwo(start, prev) ==
    IF prev - start + 1 >= 2 THEN str(start) \o <<"-">> \o str(prev)
    ELSE str(start)

\* the text of one run start..prev
FormatPart(start, prev) ==
    LET length == prev - start + 1
    IN IF length >= 3 THEN str(start) \o <<"-">> \o str(prev)
       ELSE IF length = 2 THEN str(start) \o <<",">> \o str(prev)
       ELSE str(start)

\* FormatLoop with a gap of one number taken as contiguous
RECURSIVE FormatLoop_MergeGap(_, _, _, _, _)
FormatLoop_MergeGap(nums, k, start, prev, parts) ==
    IF k > Len(nums) THEN Append(parts, FormatPart(start, prev))
    ELSE IF nums[k] <= prev + 2
    THEN FormatLoop_MergeGap(nums, k + 1, start, nums[k], parts)
    ELSE FormatLoop_MergeGap(nums, k + 1, nums[k], nums[k],
                             Append(parts, FormatPart(start, prev)))

\* the loop over nums[1:], from index k on
RECURSIVE FormatLoop(_, _, _, _, _)
FormatLoop(nums, k, start, prev, parts) ==
    IF k > Len(nums) THEN Append(parts, FormatPart(start, prev))
    ELSE IF nums[k] = prev + 1 THEN FormatLoop(nums, k + 1, start, nums[k], parts)
    ELSE FormatLoop(nums, k + 1, nums[k], nums[k],
                    Append(parts, FormatPart(start, prev)))

format_numbers(nums_) ==
    LET nums == sorted(Range(nums_))
    IN IF Len(nums) = 0 THEN <<>>
       ELSE join(<<",", " ">>, FormatLoop(nums, 2, nums[1], nums[1], <<>>))

\* ------------------------------------------------------------- documents
\* A run: character style name, direct superscript property, text.
Run(style, sup, text) == [style |-> style, sup |-> sup, text |-> text]

\* A body paragraph (CT_P) or a paragraph of a table cell.
Para(style, runs) ==
    [kind |-> "p", eid |-> 0, style |-> style, runs |-> runs, cells |-> <<>>]

\* A table (CT_Tbl); cells holds the paragraphs of its cells, row by row.
Tbl(cells) ==
    [kind |-> "tbl", eid |-> 0, style |-> "", runs |-> <<>>, cells |-> cells]

\* para.text : the texts of the runs, concatenated
RECURSIVE ConcatText(_)
ConcatText(runs) ==
    IF Len(runs) = 0 THEN <<>> ELSE runs[1].text \o ConcatText(Tail(runs))

RECURSIVE Flatten(_)
Flatten(ss) == IF Len(ss) = 0 THEN <<>> ELSE ss[1] \o Flatten(Tail(ss))

\* the paragraphs of the body in order, those inside tables included
RECURSIVE iter_document_paragraphs(_)
iter_document_paragraphs(body) ==
    IF Len(body) = 0 THEN <<>>
    ELSE (IF body[1].kind = "p" THEN <<body[1]>> ELSE body[1].cells)
         \o iter_document_paragraphs(Tail(body))

\* first index >= i that holds no citation character
RECURSIVE CiteEnd(_, _)
CiteEnd(text, i) ==
    IF i <= Len(text) /\ IsCiteChar(text[i]) THEN CiteEnd(text, i + 1) ELSE i

is_citation_run(run) ==
    \/ run.style = "cite_bib"
    \/ /\ run.sup
       /\ strip(run.text) # <<>>
       /\ \A i \in 1..Len(strip(run.text)) : IsCiteChar(strip(run.text)[i])

\* findall of \^([\d,\-–—\s]+)\^ from index i on: get_numbers of each group 1
RECURSIVE FallbackMatches(_, _)
FallbackMatches(text, i) ==
    IF i > Len(text) THEN <<>>
    ELSE LET j == CiteEnd(text, i + 1)
         IN IF text[i] = "^" /\ j > i + 1 /\ j <= Len(text) /\ text[j] = "^"
            THEN <<get_numbers(SubSeq(text, i + 1, j - 1))>>
                 \o FallbackMatches(text, j + 1)
            ELSE FallbackMatches(text, i + 1)

\* The citation occurrences of one paragraph, in discovery order: the number
\* list of every flushed group of contiguous citation runs and of every
\* fallback match of a non-citation run (the loop over para.runs, from run i
\* on, with the text of current_group and whether it is non-empty).
RECURSIVE ParaOccurrences(_, _, _, _)
ParaOccurrences(runs, i, group, open) ==
    IF i > Len(runs)
    THEN (IF open THEN <<get_numbers(group)>> ELSE <<>>)
    ELSE IF is_citation_run(runs[i])
    THEN ParaOccurrences(runs, i + 1, group \o runs[i].text, TRUE)
    ELSE (IF open THEN <<get_numbers(group)>> ELSE <<>>)
         \o FallbackMatches(runs[i].text, 1)
         \o ParaOccurrences(runs, i + 1, <<>>, FALSE)

\* the citation occurrences of the document
RECURSIVE Occurrences(_)
Occurrences(paras) ==
    IF Len(paras) = 0 THEN <<>>
    ELSE ParaOccurrences(paras[1].runs, 1, <<>>, FALSE) \o Occurrences(Tail(paras))

\* for n in nums: if n not in seen: seen.add(n); appearance_order.append(n)
RECURSIVE FirstSeen(_, _)
FirstSeen(order, nums) ==
    IF Len(nums) = 0 THEN order
    ELSE FirstSeen(IF nums[1] \in Range(order) THEN order ELSE Append(order, nums[1]),
                   Tail(nums))

\* (all_cited_ids, appearance_order)
get_citations_in_text(body) ==
    LET all_cited == Flatten(Occurrences(iter_document_paragraphs(body)))
    IN [all_cited |-> all_cited, appearance_order |-> FirstSeen(<<>>, all_cited)]

\* index of the first bib_number run from i on whose text holds a number, or 0
RECURSIVE BibRun(_, _)
BibRun(runs, i) ==
    IF i > Len(runs) THEN 0
    ELSE IF runs[i].style = "bib_number" /\ get_numbers(runs[i].text) # <<>> THEN i
    ELSE BibRun(runs, i + 1)

\* The entry read from body element k: found (an id was read), id, para (the
\* body index k), run (index of the id-bearing run, 0 for None).
BibEntry(body, k) ==
    LET p    == body[k]
        r    == BibRun(p.runs, 1)
        text == strip(ConcatText(p.runs))
        e    == DigitsEnd(text, 1)
    IN IF p.kind # "p" \/ p.style # "REF-N"
       THEN [found |-> FALSE, id |-> 0, para |-> k, run |-> 0]
       ELSE IF r # 0
       THEN [found |-> TRUE, id |-> get_numbers(p.runs[r].text)[1], para |-> k, run |-> r]
       ELSE IF e > 1
       THEN [found |-> TRUE, id |-> int(SubSeq(text, 1, e - 1)), para |-> k, run |-> 0]
       ELSE [found |-> FALSE, id |-> 0, para |-> k, run |-> 0]

\* ref_objects, from body element k on
RECURSIVE RefObjects(_, _)
RefObjects(body, k) ==
    IF k > Len(body) THEN <<>>
    ELSE SelectSeq(<<BibEntry(body, k)>>, LAMBDA e : e.found)
         \o RefObjects(body, k + 1)

\* (refs_found, ref_objects), refs_found being the ids of ref_objects
Bibliography(ref_objects) ==
    [refs_found  |-> {ref_objects[i].id : i \in 1..Len(ref_objects)},
     ref_objects |-> ref_objects]

get_references_in_bibliography(body) == Bibliography(RefObjects(body, 1))

\* -------------------------------------------------------- find_duplicates
\* re.sub(r'^\[?\d+\]?[\.\s]*', '', text) : the leading numbering removed
RECURSIVE DotSpaceEnd(_, _)
DotSpaceEnd(text, i) ==
    IF i <= Len(text) /\ (text[i] = "." \/ IsSpace(text[i]))
    THEN DotSpaceEnd(text, i + 1) ELSE i

CleanText(text) ==
    LET b == IF Len(text) >= 1 /\ text[1] = "[" THEN 2 ELSE 1
        e == DigitsEnd(text, b)
        c == IF e <= Len(text) /\ text[e] = "]" THEN e + 1 ELSE e
        z == DotSpaceEnd(text, c)
    IN IF e > b THEN SubSeq(text, z, Len(text)) ELSE text

\* SequenceMatcher(None, ...) keeps autojunk on: from this length of b on
\* its frequent characters leave the index b2j
AutoJunkLen == 200

\* __chain_b: the popular characters of b, those that occur more than
\* len(b) // 100 + 1 times when len(b) >= 200
Popular(b) ==
    IF Len(b) < AutoJunkLen THEN {}
    ELSE {c \in Range(b) :
             Cardinality({j \in 1..Len(b) : b[j] = c}) > Len(b) \div 100 + 1}

\* length of the common run of a[i..ahi] and b[j..bhi] starting at i, j,
\* made of characters of b outside pop: the first offset where it stops
CommonLen(a, b, pop, i, j, ahi, bhi) ==
    IF i > ahi \/ j > bhi THEN 0
    ELSE CHOOSE k \in 0..(ahi - i + 1) :
            /\ \/ i + k > ahi \/ j + k > bhi
               \/ a[i + k] # b[j + k] \/ b[j + k] \in pop
            /\ \A l \in 0..(k - 1) :
                  /\ i + l <= ahi /\ j + l <= bhi
                  /\ a[i + l] = b[j + l] /\ b[j + l] \notin pop

\* length of the common run of a[alo..i] and b[blo..j] ending at i, j
CommonBefore(a, b, i, j, alo, blo) ==
    IF i < alo \/ j < blo THEN 0
    ELSE CHOOSE k \in 0..(i - alo + 1) :
            /\ \/ i - k < alo \/ j - k < blo
               \/ a[i - k] # b[j - k]
            /\ \A l \in 0..(k - 1) :
                  /\ i - l >= alo /\ j - l >= blo
                  /\ a[i - l] = b[j - l]

\* the greatest and the least number of a set
Greatest(S) == CHOOSE k \in S : \A l \in S : l <= k

Least(S) == CHOOSE k \in S : \A l \in S : k <= l

\* the lengths of the runs of indexed characters that start in a[alo..ahi],
\* b[blo..bhi]: the values k of the loop over b2j, which holds for a[i] the
\* indices j with b[j] = a[i], and 0 for bestsize before the loop
RunLengths(a, b, pop, alo, ahi, blo, bhi) ==
    {0} \cup {CommonLen(a, b, pop, p[1], p[2], ahi, bhi) :
                 p \in {q \in (alo..ahi) \X (blo..bhi) : a[q[1]] = b[q[2]]}}

\* besti, bestj, bestsize after the loop over b2j: the run of the greatest
\* length k, the earliest in a and then in b; alo, blo, 0 when no indexed
\* character matches
LongestOf(a, b, pop, alo, ahi, blo, bhi, k) ==
    LET i == Least({i2 \in alo..ahi :
                       \E j \in blo..bhi :
                          /\ a[i2] = b[j]
                          /\ CommonLen(a, b, pop, i2, j, ahi, bhi) = k})
    IN IF k = 0 THEN <<alo, blo, 0>>
       ELSE <<i,
              Least({j \in blo..bhi :
                        /\ a[i] = b[j]
                        /\ CommonLen(a, b, pop, i, j, ahi, bhi) = k}),
              k>>

\* SequenceMatcher.find_longest_match over a[alo..ahi], b[blo..bhi]: the
\* longest run of indexed characters, the earliest in a and then in b among
\* the longest; the two loops after it extend the block over equal
\* characters on both sides, popular ones included (no character is junk)
find_longest_match(a, b, alo, ahi, blo, bhi) ==
    LET m      == LongestOf(a, b, Popular(b), alo, ahi, blo, bhi,
                            Greatest(RunLengths(a, b, Popular(b),
                                                alo, ahi, blo, bhi)))
        before == CommonBefore(a, b, m[1] - 1, m[2] - 1, alo, blo)
        after  == CommonLen(a, b, {}, m[1] + m[3], m[2] + m[3], ahi, bhi)
    IN IF alo > ahi \/ blo > bhi THEN <<alo, blo, 0>>
       ELSE <<m[1] - before, m[2] - before, m[3] + before + after>>

\* the total size of get_matching_blocks over a[alo..ahi], b[blo..bhi]
RECURSIVE Matches(_, _, _, _, _, _)
Matches(a, b, alo, ahi, blo, bhi) ==
    LET m == find_longest_match(a, b, alo, ahi, blo, bhi)
        i == m[1]
        j == m[2]
        k == m[3]
    IN IF alo > ahi \/ blo > bhi \/ k = 0 THEN 0
       ELSE k + Matches(a, b, alo, i - 1, blo, j - 1)
              + Matches(a, b, i + k, ahi, j + k, bhi)

\* the number of elements of a that quick_ratio counts as available in b
QuickMatches(a, b) ==
    LET cnt(s, c) == Cardinality({i \in 1..Len(s) : s[i] = c})
        chars == Range(a)
        mn(x, y) == IF x < y THEN x ELSE y
        RECURSIVE Sum(_)
        Sum(S) == IF S = {} THEN 0
                  ELSE LET c == CHOOSE c \in S : TRUE
                       IN mn(cnt(a, c), cnt(b, c)) + Sum(S \ {c})
    IN Sum(chars)

\* b^e modulo m
RECURSIVE PowMod(_, _, _)
PowMod(b, e, m) ==
    IF e = 0 THEN 1 % m
    ELSE IF e = 1 THEN b % m
    ELSE (PowMod(b, e \div 2, m) * PowMod(b, e - e \div 2, m)) % m

\* the least k with h * 2^k >= lim
Shift(h, lim) == Least({k \in 0..11 : h * 2^k >= lim})

\* the float h / 2000 is mantissa * 2^-s with a mantissa of 53 binary
\* digits: its error against h / 2000, in units of 2^-s / 2000 (float
\* division rounds to the nearest mantissa, ties to the even one)
DivError(h, s) ==
    LET R   == (h * PowMod(2, s, 2000)) % 2000
        odd == (h * PowMod(2, s, 4000)) % 4000 >= 2000
    IN IF 2 * R > 2000 \/ (2 * R = 2000 /\ odd) THEN 2000 - R ELSE 0 - R

\* W / D rounded to the nearest whole number, ties to the one that makes
\* the mantissa even; odd tells that the mantissa below is odd
NearestEven(W, D, odd) ==
    IF 2 * (W % D) > D \/ (2 * (W % D) = D /\ ((W \div D) % 2 = 1) # odd)
    THEN W \div D + 1 ELSE W \div D

\* the float (h / 2000) * 100 against h / 20, for mantissas of 53 binary
\* digits with units 2^-s (of h / 2000) and 2^-p (of h / 20): positive above,
\* zero equal, negative below.  h / 20 lies g / 20 units above the mantissa
\* below it; the product of the float h / 2000 and 100 is rounded to the
\* nearest mantissa
TieSide(h, s, p) ==
    LET g   == (h * PowMod(2, p, 20)) % 20
        D   == 20 * 2^(s - p)
        odd == (h * PowMod(2, p, 40)) % 40 >= 20
    IN 20 * (NearestEven(g * 2^(s - p) + DivError(h, s) + 2 * D, D, odd) - 2)
       - g

\* round() on a float whose tenths are q and a half: exact on the value of
\* the float, to the even tenth when the float is the half itself
TieScore(q, side) ==
    IF side > 0 \/ (side = 0 /\ q % 2 = 1) THEN q + 1 ELSE q

\* round(ratio * 100, 1) in tenths of a percent, for the float ratio =
\* 2.0 * m / t.  Away from a half the float rounds as the quotient does (its
\* error is below 10^-12 tenths, the quotient is 1 / (2 * t) from a half or
\* more); on a half, ratio is the float (2 * q + 1) / 2000 and the side of
\* the half on which ratio * 100 falls decides
Score(m, t) ==
    LET q == (2000 * m) \div t
        r == (2000 * m) % t
    IN IF 2 * r > t THEN q + 1
       ELSE IF 2 * r < t THEN q
       ELSE TieScore(q, TieSide(2 * q + 1, 52 + Shift(2 * q + 1, 2000),
                                46 + Shift(2 * q + 1, 1280)))

\* ComparePair with the length check at 0.9 in place of 0.6
ComparePair_LengthFilter(refs, i, j) ==
    LET a  == refs[i].text
        b  == refs[j].text
        la == Len(a)
        lb == Len(b)
        mn == IF la < lb THEN la ELSE lb
        mx == IF la < lb THEN lb ELSE la
        m  == Matches(a, b, 1, la, 1, lb)
    IN IF la = 0 \/ lb = 0 THEN <<>>
       ELSE IF 10 * mn < 9 * mx THEN <<>>
       ELSE IF 200 * m > 85 * (la + lb)
       THEN <<[id |-> refs[j].id, duplicate_of |-> refs[i].id,
               score |-> Score(m, la + lb)]>>
       ELSE <<>>

\* the comparison of entry i with the later entry j: the record, or none
ComparePair(refs, i, j) ==
    LET a  == refs[i].text
        b  == refs[j].text
        la == Len(a)
        lb == Len(b)
        mn == IF la < lb THEN la ELSE lb
        mx == IF la < lb THEN lb ELSE la
        m  == Matches(a, b, 1, la, 1, lb)
    IN IF la = 0 \/ lb = 0 THEN <<>>
       ELSE IF 10 * mn < 6 * mx THEN <<>>
       ELSE IF 200 * mn < 85 * (la + lb) THEN <<>>
       ELSE IF 200 * QuickMatches(a, b) < 85 * (la + lb) THEN <<>>
       ELSE IF 200 * m > 85 * (la + lb)
       THEN <<[id |-> refs[j].id, duplicate_of |-> refs[i].id,
               score |-> Score(m, la + lb)]>>
       ELSE <<>>

\* the two loops, from the pair (i, j) on
RECURSIVE DuplicateLoop(_, _, _)
DuplicateLoop(refs, i, j) ==
    IF i > Len(refs) THEN <<>>
    ELSE IF j > Len(refs) THEN DuplicateLoop(refs, i + 1, i + 2)
    ELSE ComparePair(refs, i, j) \o DuplicateLoop(refs, i, j + 1)

find_duplicates(body, ref_objects) ==
    LET processed_refs ==
            [i \in 1..Len(ref_objects) |->
                [id   |-> ref_objects[i].id,
                 text |-> CleanText(strip(ConcatText(body[ref_objects[i].para].runs)))]]
    IN DuplicateLoop(processed_refs, 1, 2)

\* ---------------------------------------------------- get_validation_stats
\* SequenceIssues with the position counted over all_cited, repeats included
RECURSIVE SequenceIssues_ByIndex(_, _, _)
SequenceIssues_ByIndex(all_cited, k, seen_in_seq) ==
    IF k > Len(all_cited) THEN <<>>
    ELSE LET n == all_cited[k]
         IN IF n \in Range(seen_in_seq)
            THEN SequenceIssues_ByIndex(all_cited, k + 1, seen_in_seq)
            ELSE (IF n # k
                  THEN <<[position |-> k, current |-> n, expected |-> k]>>
                  ELSE <<>>)
                 \o SequenceIssues_ByIndex(all_cited, k + 1, Append(seen_in_seq, n))

\* the walk over all_cited from index k on, with seen_in_seq
RECURSIVE SequenceIssues(_, _, _)
SequenceIssues(all_cited, k, seen_in_seq) ==
    IF k > Len(all_cited) THEN <<>>
    ELSE LET n == all_cited[k]
         IN IF n \in Range(seen_in_seq)
            THEN SequenceIssues(all_cited, k + 1, seen_in_seq)
            ELSE (IF n # Len(seen_in_seq) + 1
                  THEN <<[position |-> Len(seen_in_seq) + 1,
                          current  |-> n,
                          expected |-> Len(seen_in_seq) + 1]>>
                  ELSE <<>>)
                 \o SequenceIssues(all_cited, k + 1, Append(seen_in_seq, n))

\* the statistics, from the ids found, the ids cited and the duplicates
ValidationStats(refs_found, all_cited, duplicates) ==
    LET unique_cited == Range(all_cited)
        missing      == sorted(unique_cited \ refs_found)
        unused       == sorted(refs_found \ unique_cited)
        sequence_issues == SequenceIssues(all_cited, 1, <<>>)
    IN [total_references     |-> Cardinality(refs_found),
        total_citations      |-> Len(all_cited),
        missing_references   |-> missing,
        unused_references    |-> unused,
        duplicate_references |-> duplicates,
        sequence_issues      |-> sequence_issues,
        is_perfect           |-> /\ missing = <<>>
                                 /\ unused = <<>>
                                 /\ sequence_issues = <<>>
                                 /\ duplicates = <<>>]

\* the statistics, from the bibliography read and the ids cited
StatsOfBibliography(body, bib, all_cited) ==
    ValidationStats(bib.refs_found, all_cited, find_duplicates(body, bib.ref_objects))

get_validation_stats(body) ==
    StatsOfBibliography(body, get_references_in_bibliography(body),
                        get_citations_in_text(body).all_cited)

\* ---------------------------------------------------------------- renumber
\* mapping.get(n, n)
MapGet(mapping, n) == IF n \in DOMAIN mapping THEN mapping[n] ELSE n

RECURSIVE MapNums(_, _)
MapNums(mapping, nums) ==
    IF Len(nums) = 0 THEN <<>>
    ELSE <<MapGet(mapping, nums[1])>> \o MapNums(mapping, Tail(nums))

\* CreateMapping with new ids given in ascending order of the old ids
CreateMapping_ByValue(appearance_order) ==
    IF appearance_order = <<>> THEN <<>>
    ELSE [old_id \in Range(appearance_order) |->
            Cardinality({n \in Range(appearance_order) : n <= old_id})]

\* mapping[old_id] = new_id, new_id counting from 1 along appearance_order
CreateMapping(appearance_order) ==
    IF appearance_order = <<>> THEN <<>>
    ELSE [old_id \in Range(appearance_order) |->
            CHOOSE new_id \in 1..Len(appearance_order) :
                appearance_order[new_id] = old_id]

IsOpener(c) == c = "^" \/ c = "[" \/ c = "("
IsCloser(c) == c = "^" \/ c = "]" \/ c = ")"

\* search of (\^|\[|\()([\d,\-–—\s]+)(\^|\]|\)) from index i on: the span
\* <<start, end>> of the leftmost match (both inclusive), <<0, 0>> for none
RECURSIVE SearchCitation(_, _)
SearchCitation(text, i) ==
    IF i > Len(text) THEN <<0, 0>>
    ELSE LET j == CiteEnd(text, i + 1)
         IN IF IsOpener(text[i]) /\ j > i + 1 /\ j <= Len(text) /\ IsCloser(text[j])
            THEN <<i, j>>
            ELSE SearchCitation(text, i + 1)

\* The while loop over para.runs, from run i on.
RECURSIVE RewriteRuns(_, _, _)
RewriteRuns(runs, i, mapping) ==
    IF i > Len(runs) THEN runs
    ELSE LET run   == runs[i]
             match == SearchCitation(run.text, 1)
             pre_text  == SubSeq(run.text, 1, match[1] - 1)
             post_text == SubSeq(run.text, match[2] + 1, Len(run.text))
             group2    == SubSeq(run.text, match[1] + 1, match[2] - 1)
             new_run   == Run("cite_bib", TRUE,
                              format_numbers(MapNums(mapping, get_numbers(group2))))
             post_run  == Run(run.style, FALSE, post_text)
             nums      == get_numbers(run.text)
         IN IF match[1] # 0
            THEN RewriteRuns(SubSeq(runs, 1, i - 1)
                               \o <<[run EXCEPT !.text = pre_text], new_run>>
                               \o (IF post_text # <<>> THEN <<post_run>> ELSE <<>>)
                               \o SubSeq(runs, i + 1, Len(runs)),
                             i + 2, mapping)
            ELSE IF is_citation_run(run) /\ nums # <<>>
            THEN RewriteRuns([runs EXCEPT ![i] =
                                Run("cite_bib", TRUE,
                                    format_numbers(MapNums(mapping, nums)))],
                             i + 1, mapping)
            ELSE RewriteRuns(runs, i + 1, mapping)

RewritePara(p, mapping) == [p EXCEPT !.runs = RewriteRuns(p.runs, 1, mapping)]

\* 1. Update Citations in Text: every paragraph of the body and of its tables
RewriteCitations(body, mapping) ==
    [k \in 1..Len(body) |->
        IF body[k].kind = "p" THEN RewritePara(body[k], mapping)
        ELSE [body[k] EXCEPT !.cells =
                [c \in 1..Len(body[k].cells) |-> RewritePara(body[k].cells[c], mapping)]]]

\* list.sort(key = new_id) : stable insertion of obj into a sorted list
RECURSIVE InsertSorted(_, _)
InsertSorted(objs, obj) ==
    IF Len(objs) = 0 THEN <<obj>>
    ELSE IF objs[Len(objs)].new_id <= obj.new_id THEN Append(objs, obj)
    ELSE Append(InsertSorted(SubSeq(objs, 1, Len(objs) - 1), obj), objs[Len(objs)])

RECURSIVE SortByNewId(_)
SortByNewId(objs) ==
    IF Len(objs) = 0 THEN <<>>
    ELSE InsertSorted(SortByNewId(SubSeq(objs, 1, Len(objs) - 1)), objs[Len(objs)])

\* cited_refs, each with its new_id
RECURSIVE CitedRefs(_, _)
CitedRefs(ref_objects, mapping) ==
    IF Len(ref_objects) = 0 THEN <<>>
    ELSE LET obj == ref_objects[1]
         IN (IF obj.id \in DOMAIN mapping
             THEN <<[id |-> obj.id, para |-> obj.para, run |-> obj.run,
                     new_id |-> mapping[obj.id]]>>
             ELSE <<>>)
            \o CitedRefs(Tail(ref_objects), mapping)

RECURSIVE UncitedRefs(_, _)
UncitedRefs(ref_objects, mapping) ==
    IF Len(ref_objects) = 0 THEN <<>>
    ELSE (IF ref_objects[1].id \in DOMAIN mapping THEN <<>> ELSE <<ref_objects[1]>>)
         \o UncitedRefs(Tail(ref_objects), mapping)

\* the paragraph of a cited entry as it is inserted: run.text = str(new_id)
\* when the entry has an id-bearing run
RewrittenEntry(body, obj) ==
    IF obj.run # 0
    THEN [body[obj.para] EXCEPT !.runs[obj.run].text = str(obj.new_id)]
    ELSE body[obj.para]

\* the body after "Remove all", from element k on: the elements that are no
\* paragraph of an entry
RECURSIVE Remaining(_, _, _)
Remaining(body, paras, k) ==
    IF k > Len(body) THEN <<>>
    ELSE (IF k \in paras THEN <<>> ELSE <<body[k]>>) \o Remaining(body, paras, k + 1)

\* the paragraphs inserted for cited_refs, entry k on
RECURSIVE InsertCited(_, _, _)
InsertCited(body, cited_refs, k) ==
    IF k > Len(cited_refs) THEN <<>>
    ELSE <<RewrittenEntry(body, cited_refs[k])>> \o InsertCited(body, cited_refs, k + 1)

\* the paragraphs inserted for uncited_refs, entry k on
RECURSIVE InsertUncited(_, _, _)
InsertUncited(body, uncited_refs, k) ==
    IF k > Len(uncited_refs) THEN <<>>
    ELSE <<body[uncited_refs[k].para]>> \o InsertUncited(body, uncited_refs, k + 1)

\* body.insert(insert_idx, ...) from insert_idx = anchor on
InsertAt(rest, anchor, inserted) ==
    SubSeq(rest, 1, anchor - 1) \o inserted \o SubSeq(rest, anchor, Len(rest))

\* the body indices of the entries
Indices(ref_objects) == {ref_objects[i].para : i \in 1..Len(ref_objects)}

\* min(indices)
Min(indices) == CHOOSE a \in indices : \A b \in indices : a <= b

\* MoveEntries without the inserts of the uncited entries
MoveEntries_CitedOnly(body, indices, cited_refs, uncited_refs) ==
    InsertAt(Remaining(body, indices, 1), Min(indices), InsertCited(body, cited_refs, 1))

\* the removes and the inserts, for the two lists in their final order
MoveEntries(body, indices, cited_refs, uncited_refs) ==
    InsertAt(Remaining(body, indices, 1), Min(indices),
             InsertCited(body, cited_refs, 1) \o InsertUncited(body, uncited_refs, 1))

\* ReorderEntries without the sort of cited_refs
ReorderEntries_NoSort(body, mapping, ref_objects) ==
    IF ref_objects = <<>> THEN body
    ELSE MoveEntries(body, Indices(ref_objects),
                     CitedRefs(ref_objects, mapping),
                     UncitedRefs(ref_objects, mapping))

\* the reorder of the entries ref_objects read from the body
ReorderEntries(body, mapping, ref_objects) ==
    IF ref_objects = <<>> THEN body
    ELSE MoveEntries(body, Indices(ref_objects),
                     SortByNewId(CitedRefs(ref_objects, mapping)),
                     UncitedRefs(ref_objects, mapping))

\* 2. Reorder Bibliography
ReorderBibliography(body, mapping) ==
    ReorderEntries(body, mapping, get_references_in_bibliography(body).ref_objects)

\* ReferenceProcessor.renumber: the document afterwards, the mapping returned
\* and the body as it stood between the two steps
RenumberSteps(d, mapping, rewritten) ==
    [doc     |-> [body   |-> ReorderBibliography(rewritten, mapping),
                  styles |-> d.styles \cup {"cite_bib"}],
     mapping |-> mapping,
     mid     |-> rewritten]

\* renumber, given the mapping it creates
RenumberWith(d, mapping) == RenumberSteps(d, mapping, RewriteCitations(d.body, mapping))

renumber(d) ==
    RenumberWith(d, CreateMapping(get_citations_in_text(d.body).appearance_order))

\* ------------------------------------- renumber, the copy of src/app_server.py
\* citation_pattern.sub(replace_func, text) from index i on, for the pattern
\* \^([\d,\-–—\s]+)\^ : every match becomes ^format_numbers(mapped numbers)^
RECURSIVE PatternSub(_, _, _)
PatternSub(text_, i, mapping) ==
    IF i > Len(text_) THEN <<>>
    ELSE IF /\ text_[i] = "^"
            /\ CiteEnd(text_, i + 1) > i + 1
            /\ CiteEnd(text_, i + 1) <= Len(text_)
            /\ text_[CiteEnd(text_, i + 1)] = "^"
    THEN <<"^">>
         \o format_numbers(MapNums(mapping,
                get_numbers(SubSeq(text_, i + 1, CiteEnd(text_, i + 1) - 1))))
         \o <<"^">>
         \o PatternSub(text_, CiteEnd(text_, i + 1) + 1, mapping)
    ELSE <<text_[i]>> \o PatternSub(text_, i + 1, mapping)

\* "".join(r.text for r in current_group), current_group as indices of runs
RECURSIVE GroupText(_, _)
GroupText(runs, group) ==
    IF Len(group) = 0 THEN <<>>
    ELSE runs[group[1]].text \o GroupText(runs, Tail(group))

\* the runs once the numbers nums of current_group are replaced: the first run
\* of the group takes the new text, the others the empty text
ReplaceGroup(runs, group, nums, mapping) ==
    IF Len(group) = 0 \/ nums = <<>> THEN runs
    ELSE [k \in 1..Len(runs) |->
            IF k = group[1]
            THEN [runs[k] EXCEPT !.text = format_numbers(MapNums(mapping, nums))]
            ELSE IF k \in Range(group) THEN [runs[k] EXCEPT !.text = <<>>]
            ELSE runs[k]]

\* if current_group: replace (at a run that is no citation run and after the
\* last run)
FlushGroup(runs, group, mapping) ==
    ReplaceGroup(runs, group, get_numbers(GroupText(runs, group)), mapping)

\* the runs flushed, with the pattern replaced in run i
FlushAndSub(flushed, i, mapping) ==
    [flushed EXCEPT ![i].text = PatternSub(flushed[i].text, 1, mapping)]

\* the loop over para.runs, from run i on, with current_group
RECURSIVE GroupRewriteRuns(_, _, _, _)
GroupRewriteRuns(runs, i, group, mapping) ==
    IF i > Len(runs) THEN FlushGroup(runs, group, mapping)
    ELSE IF is_citation_run(runs[i])
    THEN GroupRewriteRuns(runs, i + 1, Append(group, i), mapping)
    ELSE GroupRewriteRuns(FlushAndSub(FlushGroup(runs, group, mapping), i, mapping),
                          i + 1, <<>>, mapping)

GroupRewritePara(p, mapping) ==
    [p EXCEPT !.runs = GroupRewriteRuns(p.runs, 1, <<>>, mapping)]

\* 1. Update Citations in Text, as the copy does it
GroupRewriteCitations(body, mapping) ==
    [k \in 1..Len(body) |->
        IF body[k].kind = "p" THEN GroupRewritePara(body[k], mapping)
        ELSE [body[k] EXCEPT !.cells =
                [c \in 1..Len(body[k].cells) |->
                    GroupRewritePara(body[k].cells[c], mapping)]]]

\* the copy of renumber, given the mapping and the body it rewrote: the copy
\* adds no style
CopySteps(d, mapping, rewritten) ==
    [doc     |-> [body |-> ReorderBibliography(rewritten, mapping), styles |-> d.styles],
     mapping |-> mapping]

CopyWith(d, mapping) == CopySteps(d, mapping, GroupRewriteCitations(d.body, mapping))

\* ReferenceProcessor.renumber of src/app_server.py
app_server_renumber(d) ==
    CopyWith(d, CreateMapping(get_citations_in_text(d.body).appearance_order))

\* -------------------------------------------------------- process_document
\* whether mapping moves some id (changes_made)
ChangesMade(mapping) == \E k \in DOMAIN mapping : mapping[k] # k

\* the status message; count fills the {count} of the duplicates message
StatusMsg(before_stats, mapping) ==
    LET count == Len(before_stats.duplicate_references)
        plural == IF count > 1 THEN "s" ELSE ""
    IN IF count # 0
       THEN IF ChangesMade(mapping)
            THEN [text |-> "Renumbering completed with {count} duplicate" \o plural \o ".",
                  count |-> count]
            ELSE [text |-> "Validation completed with {count} duplicate" \o plural \o ".",
                  count |-> count]
       ELSE IF ChangesMade(mapping)
       THEN [text |-> "Renumbering completed successfully.", count |-> 0]
       ELSE [text |-> "Validation completed.", count |-> 0]

\* the result of an early return: nothing renumbered, the statistics returned twice
Aborted(d, before_stats, msg) ==
    [doc |-> d, before |-> before_stats, after |-> before_stats,
     mapping |-> <<>>, status_msg |-> [text |-> msg, count |-> 0],
     mid |-> d.body, renumbered |-> FALSE]

\* the result once renumber has run and the statistics are taken again
Renumbered(before_stats, r, after_stats) ==
    [doc |-> r.doc, before |-> before_stats, after |-> after_stats,
     mapping |-> r.mapping,
     status_msg |-> StatusMsg(before_stats, r.mapping),
     mid |-> r.mid, renumbered |-> TRUE]

\* EarlyReturn without the abort on missing references
EarlyReturn_NoMissingGate(before_stats) ==
    IF before_stats.unused_references # <<>>
    THEN "Aborted: Document validation failed due to unused references."
    ELSE IF before_stats.is_perfect
    THEN "Validation completed."
    ELSE ""

\* EarlyReturn without the abort on unused references
EarlyReturn_NoUnusedGate(before_stats) ==
    IF before_stats.is_perfect
    THEN "Validation completed."
    ELSE IF before_stats.missing_references # <<>>
    THEN "Aborted: Missing references detected."
    ELSE ""

\* the three early returns in their order: the status message, "" for none
EarlyReturn(before_stats) ==
    IF before_stats.unused_references # <<>>
    THEN "Aborted: Document validation failed due to unused references."
    ELSE IF before_stats.is_perfect
    THEN "Validation completed."
    ELSE IF before_stats.missing_references # <<>>
    THEN "Aborted: Missing references detected."
    ELSE ""

\* process_document, given the statistics before and the outcome of renumber
ProcessSteps(d, before_stats, r) ==
    IF EarlyReturn(before_stats) # ""
    THEN Aborted(d, before_stats, EarlyReturn(before_stats))
    ELSE Renumbered(before_stats, r, get_validation_stats(r.doc.body))

process_document(d) == ProcessSteps(d, get_validation_stats(d.body), renumber(d))

\* process_document of src/app_server.py, given the statistics before and the
\* outcome of its renumber
AppProcessSteps(d, before_stats, r) ==
    IF EarlyReturn(before_stats) # ""
    THEN [doc |-> d, mapping |-> <<>>, before |-> before_stats, after |-> before_stats,
          status_msg |-> [text |-> EarlyReturn(before_stats), count |-> 0]]
    ELSE [doc |-> r.doc, mapping |-> r.mapping, before |-> before_stats,
          after |-> get_validation_stats(r.doc.body),
          status_msg |-> StatusMsg(before_stats, r.mapping)]

app_server_process_document(d) ==
    AppProcessSteps(d, get_validation_stats(d.body), app_server_renumber(d))

\* ============================================== name-year validation (APA)
\* ------------------------------------------------------------------ strings
Upper == <<"A", "B", "C", "D", "E", "F", "G", "H", "I", "J", "K", "L", "M",
           "N", "O", "P", "Q", "R", "S", "T", "U", "V", "W", "X", "Y", "Z">>

Lower == <<"a", "b", "c", "d", "e", "f", "g", "h", "i", "j", "k", "l", "m",
           "n", "o", "p", "q", "r", "s", "t", "u", "v", "w", "x", "y", "z">>

\* [A-Z]
IsUpper(c) == \E k \in 1..26 : Upper[k] = c

\* [a-z]
IsLower(c) == \E k \in 1..26 : Lower[k] = c

\* \w of the patterns (the model's texts are ASCII)
IsWord(c) == IsUpper(c) \/ IsLower(c) \/ IsDigit(c) \/ c = "_"

\* c.lower()
LowerChar(c) == IF IsUpper(c) THEN Lower[CHOOSE k \in 1..26 : Upper[k] = c] ELSE c

\* s.lower()
lower(s) == [i \in 1..Len(s) |-> LowerChar(s[i])]

\* s.startswith(prefix)
startswith(s, prefix) ==
    Len(prefix) <= Len(s) /\ SubSeq(s, 1, Len(prefix)) = prefix

\* sub in s
Contains(s, sub) ==
    \E i \in 1..(Len(s) - Len(sub) + 1) : SubSeq(s, i, i + Len(sub) - 1) = sub

\* s.split(sep) for the one-character separator sep, from index i on, cur
\* being the part read so far
RECURSIVE SplitOn(_, _, _, _)
SplitOn(s, sep, i, cur) ==
    IF i > Len(s) THEN <<cur>>
    ELSE IF s[i] = sep THEN <<cur>> \o SplitOn(s, sep, i + 1, <<>>)
    ELSE SplitOn(s, sep, i + 1, Append(cur, s[i]))

\* s.split() : the maximal runs without whitespace
RECURSIVE SplitWords(_, _, _)
SplitWords(s, i, cur) ==
    IF i > Len(s) THEN (IF cur = <<>> THEN <<>> ELSE <<cur>>)
    ELSE IF IsSpace(s[i])
    THEN (IF cur = <<>> THEN <<>> ELSE <<cur>>) \o SplitWords(s, i + 1, <<>>)
    ELSE SplitWords(s, i + 1, Append(cur, s[i]))

\* first index >= i that holds no whitespace
RECURSIVE SkipSpace(_, _)
SkipSpace(s, i) == IF i <= Len(s) /\ IsSpace(s[i]) THEN SkipSpace(s, i + 1) ELSE i

\* re.sub(r'\s+', ' ', s)
RECURSIVE CollapseSpace(_, _)
CollapseSpace(s, i) ==
    IF i > Len(s) THEN <<>>
    ELSE IF IsSpace(s[i]) THEN <<" ">> \o CollapseSpace(s, SkipSpace(s, i))
    ELSE <<s[i]>> \o CollapseSpace(s, i + 1)

\* NormalizeAuthor with the strip before the characters are removed
NormalizeAuthor_StripFirst(author_part) ==
    CollapseSpace(SelectSeq(strip(author_part),
                            LAMBDA c : IsWord(c) \/ IsSpace(c) \/ c = "&"), 1)

\* the author part of normalize_citation_key: re.sub(r'[^\w\s&]', '', a),
\* strip, re.sub(r'\s+', ' ', .)
NormalizeAuthor(author_part) ==
    CollapseSpace(strip(SelectSeq(author_part,
                                  LAMBDA c : IsWord(c) \/ IsSpace(c) \/ c = "&")), 1)

\* f"{author_clean}|{year}"
normalize_citation_key(author_part, year) ==
    NormalizeAuthor(author_part) \o <<"|">> \o year

\* key.split('|')[0]
KeyAuthor(key) == SplitOn(key, "|", 1, <<>>)[1]

\* whether \band\b (IGNORECASE) matches at index i
AndAt(s, i) ==
    /\ i + 2 <= Len(s)
    /\ lower(SubSeq(s, i, i + 2)) = <<"a", "n", "d">>
    /\ (i = 1 \/ ~IsWord(s[i - 1]))
    /\ (i + 3 > Len(s) \/ ~IsWord(s[i + 3]))

\* re.sub(r'\band\b', '&', s, flags=re.IGNORECASE) from index i on: each
\* match becomes "&" (two matches never overlap)
AndToAmp(s, i) ==
    SelectSeq([k \in 1..(Len(s) - i + 1) |->
                  IF AndAt(s, i + k - 1) THEN "&"
                  ELSE IF \/ k > 1 /\ AndAt(s, i + k - 2)
                          \/ k > 2 /\ AndAt(s, i + k - 3)
                  THEN "" ELSE s[i + k - 1]],
              LAMBDA c : c # "")

\* re.sub(r'^the\s+', '', s)
DropThe(s) ==
    IF startswith(s, <<"t", "h", "e">>) /\ Len(s) >= 4 /\ IsSpace(s[4])
    THEN SubSeq(s, SkipSpace(s, 4), Len(s))
    ELSE s

\* normalize_text_for_comparison that keeps the capitals
normalize_text_for_comparison_KeepCase(text_) ==
    DropThe(strip(SelectSeq(AndToAmp(text_, 1), LAMBDA c : c # "." /\ c # ",")))

normalize_text_for_comparison(text_) ==
    DropThe(lower(strip(SelectSeq(AndToAmp(text_, 1),
                                  LAMBDA c : c # "." /\ c # ","))))

\* the maximal runs of word characters of s, from index i on
RECURSIVE WordRuns(_, _, _)
WordRuns(s, i, cur) ==
    IF i > Len(s) THEN (IF cur = <<>> THEN {} ELSE {cur})
    ELSE IF IsWord(s[i]) THEN WordRuns(s, i + 1, Append(cur, s[i]))
    ELSE (IF cur = <<>> THEN {} ELSE {cur}) \cup WordRuns(s, i + 1, <<>>)

\* set(re.findall(r'\b[a-z]{2,}\b', s))
Words(s) ==
    {w \in WordRuns(s, 1, <<>>) : Len(w) >= 2 /\ \A i \in 1..Len(w) : IsLower(w[i])}

\* the stopwords taken from a citation's words
Stopwords == {<<"a", "n", "d">>, <<"t", "h", "e">>, <<"e", "t">>, <<"a", "l">>}

\* --------------------------------------------------------------- extraction
\* A paragraph of the snapshot: its text, and what the parser handed to the
\* functions returns for it: cites = parser.parse_citation(text), ref =
\* parser.parse_reference(text.strip()), NoRef standing for None.
NoRef == [author |-> <<>>, year |-> <<>>, full_author |-> <<>>,
          abbreviations |-> <<>>, valid |-> FALSE]

RefOpen == <<"<", "r", "e", "f", "-", "o", "p", "e", "n", ">">>

RefClose == <<"<", "r", "e", "f", "-", "c", "l", "o", "s", "e", ">">>

\* the length a reference text is cut to in reference_details
SnippetLen == 150

\* a dict in insertion order is a list of entries with a key: its keys
Keys(entries) == {entries[k].key : k \in 1..Len(entries)}

\* the index of the entry of a key, 0 for none
IndexOfKey(entries, key) ==
    IF key \in Keys(entries)
    THEN CHOOSE k \in 1..Len(entries) : entries[k].key = key
    ELSE 0

\* display_key of a citation
DisplayKey(cite) ==
    IF cite.type = "parenthetical"
    THEN <<"(">> \o cite.author \o <<",", " ">> \o cite.year \o <<")">>
    ELSE cite.author \o <<" ", "(">> \o cite.year \o <<")">>

\* extend(w for w in new if w not in old)
MergeWarnings(old, new) == old \o SelectSeq(new, LAMBDA w : w \notin Range(old))

\* the list object the citation cite of paragraph i has as its warnings: the
\* parser gives the citations of one parenthesis segment one list (field list)
ListOf(cite, i) == <<i, cite.list>>

\* the entries of the table that hold the list object
Holders(lists, list) == {m \in 1..Len(lists) : lists[m] = list}

\* cite.get('warnings', []) as it reads now: a list an entry of the table
\* holds has what was merged into it, another list what the parser put there
WarningsNow(found, cite, i) ==
    IF Holders(found.lists, ListOf(cite, i)) = {} THEN cite.warnings
    ELSE found.citations[CHOOSE m \in Holders(found.lists, ListOf(cite, i)) : TRUE].warnings

\* the citation entry stored for a key seen first
NewCitation(citation_key, cite, warnings) ==
    [key |-> citation_key, display |-> DisplayKey(cite), author |-> cite.author,
     year |-> cite.year, type |-> cite.type, warnings |-> warnings]

\* citations after a citation of the key of entry k (0: a new key) whose
\* warnings are new. The entry of a new key holds the list of the citation
\* itself, not a copy; extending the list of entry k in place shows in every
\* entry that holds the same list.
PutCitation(citations, lists, citation_key, cite, k, new) ==
    IF k = 0 THEN Append(citations, NewCitation(citation_key, cite, new))
    ELSE [m \in 1..Len(citations) |->
            IF lists[m] = lists[k]
            THEN [citations[m] EXCEPT
                     !.warnings = MergeWarnings(citations[k].warnings, new)]
            ELSE citations[m]]

\* the list objects the entries hold, after the same citation
PutList(lists, cite, i, k) ==
    IF k = 0 THEN Append(lists, ListOf(cite, i)) ELSE lists

\* citation_locations after a citation of key citation_key in paragraph i
PutLocation(citation_locations, citation_key, i) ==
    IF citation_key \in DOMAIN citation_locations
    THEN [citation_locations EXCEPT ![citation_key] = Append(@, i)]
    ELSE citation_locations @@ (citation_key :> <<i>>)

\* the body of "for cite in found_citations" for the key of cite
AddCitation(found, citation_key, cite, i) ==
    [citations |-> PutCitation(found.citations, found.lists, citation_key, cite,
                               IndexOfKey(found.citations, citation_key),
                               WarningsNow(found, cite, i)),
     citation_locations |-> PutLocation(found.citation_locations, citation_key, i),
     lists |-> PutList(found.lists, cite, i,
                       IndexOfKey(found.citations, citation_key))]

\* the loops over the paragraphs from i on and over found_citations from j on
RECURSIVE ScanCitations(_, _, _, _)
ScanCitations(paragraphs, i, j, found) ==
    IF i > Len(paragraphs) THEN found
    ELSE IF Contains(paragraphs[i].text, RefOpen) THEN found
    ELSE IF j > Len(paragraphs[i].cites) THEN ScanCitations(paragraphs, i + 1, 1, found)
    ELSE ScanCitations(paragraphs, i, j + 1,
            AddCitation(found,
                        normalize_citation_key(paragraphs[i].cites[j].author,
                                               paragraphs[i].cites[j].year),
                        paragraphs[i].cites[j], i))

\* the two tables returned
Returned(found) ==
    [citations |-> found.citations, citation_locations |-> found.citation_locations]

\* (citations, citation_locations)
find_citations_in_text(paragraphs) ==
    Returned(ScanCitations(paragraphs, 1, 1,
                           [citations |-> <<>>, citation_locations |-> <<>>,
                            lists |-> <<>>]))

\* para_stripped[:150] + ('...' if len(para_stripped) > 150 else '')
Snippet(para_stripped) ==
    IF Len(para_stripped) > SnippetLen
    THEN SubSeq(para_stripped, 1, SnippetLen) \o <<".", ".", ".">>
    ELSE para_stripped

\* abbreviation_map after the abbreviations of a new reference, from the k-th on
RECURSIVE PutAbbreviations(_, _, _, _, _)
PutAbbreviations(abbreviation_map, abbreviations, year, ref_key, k) ==
    IF k > Len(abbreviations) THEN abbreviation_map
    ELSE PutAbbreviations(
            [a \in DOMAIN abbreviation_map \cup {abbreviations[k] \o <<"|">> \o year} |->
                IF a = abbreviations[k] \o <<"|">> \o year THEN ref_key
                ELSE abbreviation_map[a]],
            abbreviations, year, ref_key, k + 1)

\* AddReference where a later entry of a stored key takes the place of the
\* stored one
AddReference_LastWins(found, ref_key, ref_data, i, para_stripped) ==
    [references |->
        SelectSeq(found.references, LAMBDA r : r.key # ref_key)
           \o <<[key |-> ref_key,
                 display |-> ref_data.author \o <<" ", "(">> \o ref_data.year \o <<")">>,
                 author |-> ref_data.author, year |-> ref_data.year,
                 full_author |-> ref_data.full_author,
                 abbreviations |-> ref_data.abbreviations]>>,
     reference_details |->
        (ref_key :> [line |-> i, text |-> Snippet(para_stripped)])
           @@ found.reference_details,
     abbreviation_map |->
        PutAbbreviations(found.abbreviation_map, ref_data.abbreviations,
                         ref_data.year, ref_key, 1)]

\* the three tables after the reference ref_data of key ref_key parsed from
\* paragraph i
AddReference(found, ref_key, ref_data, i, para_stripped) ==
    IF ref_key \in Keys(found.references) THEN found
    ELSE [references |->
             Append(found.references,
                    [key |-> ref_key,
                     display |-> ref_data.author \o <<" ", "(">> \o ref_data.year \o <<")">>,
                     author |-> ref_data.author, year |-> ref_data.year,
                     full_author |-> ref_data.full_author,
                     abbreviations |-> ref_data.abbreviations]),
          reference_details |->
             found.reference_details
                @@ (ref_key :> [line |-> i, text |-> Snippet(para_stripped)]),
          abbreviation_map |->
             PutAbbreviations(found.abbreviation_map, ref_data.abbreviations,
                              ref_data.year, ref_key, 1)]

\* the loop over the paragraphs from i on, with in_references_section
RECURSIVE ScanReferences(_, _, _, _)
ScanReferences(paragraphs, i, in_references_section, found) ==
    IF i > Len(paragraphs) THEN found
    ELSE IF Contains(strip(paragraphs[i].text), RefOpen)
    THEN ScanReferences(paragraphs, i + 1, TRUE, found)
    ELSE IF Contains(strip(paragraphs[i].text), RefClose)
    THEN ScanReferences(paragraphs, i + 1, FALSE, found)
    ELSE IF in_references_section /\ strip(paragraphs[i].text) # <<>>
            /\ paragraphs[i].ref.valid
    THEN ScanReferences(paragraphs, i + 1, in_references_section,
            AddReference(found,
                         normalize_citation_key(paragraphs[i].ref.author,
                                                paragraphs[i].ref.year),
                         paragraphs[i].ref, i, strip(paragraphs[i].text)))
    ELSE ScanReferences(paragraphs, i + 1, in_references_section, found)

\* (references, reference_details, abbreviation_map)
find_references_in_bibliography(paragraphs) ==
    ScanReferences(paragraphs, 1, FALSE,
                   [references |-> <<>>, reference_details |-> <<>>,
                    abbreviation_map |-> <<>>])

\* ------------------------------------------------------------------ matcher
\* None, for a reference key
NoKey == <<>>

\* first index of the character c in s, 0 for none
IndexOfChar(s, c) ==
    IF \E i \in 1..Len(s) : s[i] = c
    THEN CHOOSE i \in 1..Len(s) : s[i] = c /\ \A j \in 1..(i - 1) : s[j] # c
    ELSE 0

\* start of the whitespace that ends right before index i
RECURSIVE SpaceStart(_, _)
SpaceStart(s, i) == IF i > 1 /\ IsSpace(s[i - 1]) THEN SpaceStart(s, i - 1) ELSE i

\* normalized group 1 of re.match(r'^(.*?)\s*\[.*?\]', cite_author), <<>> when
\* there is no match
CitationPrefixNorm(cite_author, open) ==
    IF open # 0 /\ \E q \in (open + 1)..Len(cite_author) : cite_author[q] = "]"
    THEN normalize_text_for_comparison(
            SubSeq(cite_author, 1, SpaceStart(cite_author, open) - 1))
    ELSE <<>>

\* the significant words of a citation
CiteWords(cite_norm) == Words(cite_norm) \ Stopwords

\* SmartRules with rule D tried for a single significant word as well
SmartRules_AnyWord(cite_norm, citation_prefix_norm, ref_norm) ==
    \/ cite_norm = ref_norm
    \/ citation_prefix_norm # <<>> /\ citation_prefix_norm = ref_norm
    \/ /\ Contains(cite_norm, <<"e", "t", " ", "a", "l">>)
       /\ SplitWords(cite_norm, 1, <<>>)[1] = SplitWords(ref_norm, 1, <<>>)[1]
    \/ /\ Cardinality(CiteWords(cite_norm)) > 0
       /\ CiteWords(cite_norm) \subseteq Words(ref_norm)

\* rules A to D of check_smart_match for one candidate
SmartRules(cite_norm, citation_prefix_norm, ref_norm) ==
    \/ cite_norm = ref_norm
    \/ citation_prefix_norm # <<>> /\ citation_prefix_norm = ref_norm
    \/ /\ Contains(cite_norm, <<"e", "t", " ", "a", "l">>)
       /\ SplitWords(cite_norm, 1, <<>>)[1] = SplitWords(ref_norm, 1, <<>>)[1]
    \/ /\ Cardinality(CiteWords(cite_norm)) > 1
       /\ CiteWords(cite_norm) \subseteq Words(ref_norm)

\* the loop over references.items() from the k-th on
RECURSIVE SmartLoop(_, _, _, _, _)
SmartLoop(references, k, cite_year, cite_norm, citation_prefix_norm) ==
    IF k > Len(references) THEN NoKey
    ELSE IF cite_year # <<>> /\ references[k].year # cite_year
    THEN SmartLoop(references, k + 1, cite_year, cite_norm, citation_prefix_norm)
    ELSE IF SmartRules(cite_norm, citation_prefix_norm,
                       normalize_text_for_comparison(references[k].full_author))
    THEN references[k].key
    ELSE SmartLoop(references, k + 1, cite_year, cite_norm, citation_prefix_norm)

check_smart_match(cite_data, references) ==
    SmartLoop(references, 1, cite_data.year,
              normalize_text_for_comparison(cite_data.author),
              CitationPrefixNorm(cite_data.author, IndexOfChar(cite_data.author, "[")))

\* MatchedRefKey with the smart match tried before the two tables
MatchedRefKey_SmartFirst(cite_data, references, abbreviation_map, abbr_key) ==
    IF check_smart_match(cite_data, references) # NoKey
    THEN check_smart_match(cite_data, references)
    ELSE IF cite_data.key \in Keys(references) THEN cite_data.key
    ELSE IF abbr_key \in DOMAIN abbreviation_map THEN abbreviation_map[abbr_key]
    ELSE NoKey

\* matched_ref_key of one citation: exact, then abbreviation, then smart match
MatchedRefKey(cite_data, references, abbreviation_map, abbr_key) ==
    IF cite_data.key \in Keys(references) THEN cite_data.key
    ELSE IF abbr_key \in DOMAIN abbreviation_map THEN abbreviation_map[abbr_key]
    ELSE check_smart_match(cite_data, references)

\* AddMatch with the citation key added to matched_references
AddMatch_AddsCitation(matches, cite_key, matched_ref_key) ==
    IF matched_ref_key = NoKey THEN matches
    ELSE [matched_citations |-> matches.matched_citations \cup {cite_key},
          matched_references |-> matches.matched_references \cup {cite_key},
          matched_pairs |-> Append(matches.matched_pairs,
                                   [key |-> cite_key, ref |-> matched_ref_key])]

\* "if matched_ref_key:" and the three updates
AddMatch(matches, cite_key, matched_ref_key) ==
    IF matched_ref_key = NoKey THEN matches
    ELSE [matched_citations |-> matches.matched_citations \cup {cite_key},
          matched_references |-> matches.matched_references \cup {matched_ref_key},
          matched_pairs |-> Append(matches.matched_pairs,
                                   [key |-> cite_key, ref |-> matched_ref_key])]

\* the loop over citations.items() from the k-th on
RECURSIVE MatchLoop(_, _, _, _, _)
MatchLoop(citations, references, abbreviation_map, k, matches) ==
    IF k > Len(citations) THEN matches
    ELSE MatchLoop(citations, references, abbreviation_map, k + 1,
            AddMatch(matches, citations[k].key,
                     MatchedRefKey(citations[k], references, abbreviation_map,
                                   strip(citations[k].author) \o <<"|">>
                                       \o citations[k].year)))

\* (matched_citations, matched_references, matched_pairs); matched_pairs is
\* the dict in insertion order
get_citation_matches(citations, references, abbreviation_map) ==
    MatchLoop(citations, references, abbreviation_map, 1,
              [matched_citations |-> {}, matched_references |-> {},
               matched_pairs |-> <<>>])

\* matched_pairs[cite_key]
PairOf(matched_pairs, cite_key) == matched_pairs[IndexOfKey(matched_pairs, cite_key)].ref

\* ---------------------------------------------------------------- diagnostics
\* SequenceMatcher(None, a, b).ratio() as the fraction <<2 * matches, length>>,
\* 1.0 for two empty texts
Ratio(a, b) ==
    IF Len(a) + Len(b) = 0 THEN <<1, 1>>
    ELSE <<2 * Matches(a, b, 1, Len(a), 1, Len(b)), Len(a) + Len(b)>>

RECURSIVE SpellingLoop(_, _, _, _, _)
\* "if ratio > 0.8: if ratio > max_ratio:" for the k-th reference
SpellingStep(cite_author_norm, references, k, best_match, max_ratio, ratio) ==
    IF 5 * ratio[1] > 4 * ratio[2] /\ ratio[1] * max_ratio[2] > max_ratio[1] * ratio[2]
    THEN SpellingLoop(cite_author_norm, references, k + 1, references[k].key, ratio)
    ELSE SpellingLoop(cite_author_norm, references, k + 1, best_match, max_ratio)

\* the loop of check_spelling_mismatch from the k-th reference on, with
\* best_match and max_ratio
SpellingLoop(cite_author_norm, references, k, best_match, max_ratio) ==
    IF k > Len(references) THEN best_match
    ELSE SpellingStep(cite_author_norm, references, k, best_match, max_ratio,
                      Ratio(cite_author_norm,
                            normalize_text_for_comparison(references[k].author)))

check_spelling_mismatch(cite_author, references) ==
    SpellingLoop(normalize_text_for_comparison(cite_author), references, 1,
                 NoKey, <<0, 1>>)

\* whether re.match(r'^[A-Z]\.?$', p) matches
IsBareInitial(p) ==
    /\ Len(p) \in {1, 2}
    /\ IsUpper(p[1])
    /\ Len(p) = 2 => p[2] = "."

\* the segments of parts[0].split(',') that count as an author
AuthorSegments(first_part) ==
    SelectSeq(SplitOn(first_part, ",", 1, <<>>),
              LAMBDA p : strip(p) # <<>> /\ ~IsBareInitial(strip(p)))

\* author_count of a reference
AuthorCount(ref_full_author) ==
    IF Contains(ref_full_author, <<"&">>)
    THEN Len(AuthorSegments(SplitOn(ref_full_author, "&", 1, <<>>)[1])) + 1
    ELSE 1

\* end (exclusive) of a match of \s*et\s+al\.?\s* (IGNORECASE) whose leading
\* whitespace ends before index j, 0 for none
EtAlEnd(s, j) ==
    IF /\ j + 1 <= Len(s)
       /\ lower(SubSeq(s, j, j + 1)) = <<"e", "t">>
       /\ j + 2 <= Len(s)
       /\ IsSpace(s[j + 2])
       /\ SkipSpace(s, j + 2) + 1 <= Len(s)
       /\ lower(SubSeq(s, SkipSpace(s, j + 2), SkipSpace(s, j + 2) + 1)) = <<"a", "l">>
    THEN IF SkipSpace(s, j + 2) + 2 <= Len(s) /\ s[SkipSpace(s, j + 2) + 2] = "."
         THEN SkipSpace(s, SkipSpace(s, j + 2) + 3)
         ELSE SkipSpace(s, SkipSpace(s, j + 2) + 2)
    ELSE 0

\* re.sub(r'\s*et\s+al\.?\s*', '', s, flags=re.IGNORECASE) from index i on
RECURSIVE DropEtAl(_, _)
DropEtAl(s, i) ==
    IF i > Len(s) THEN <<>>
    ELSE IF EtAlEnd(s, SkipSpace(s, i)) # 0
    THEN DropEtAl(s, EtAlEnd(s, SkipSpace(s, i)))
    ELSE <<s[i]>> \o DropEtAl(s, i + 1)

\* the first surname of author_str once 'et al.' is taken out
FirstSurname(author_str) ==
    IF Contains(author_str, <<",">>)
    THEN strip(SplitOn(author_str, ",", 1, <<>>)[1])
    ELSE IF SplitWords(author_str, 1, <<>>) = <<>> THEN <<>>
    ELSE SplitWords(author_str, 1, <<>>)[1]

extract_first_surname(author_str) == FirstSurname(DropEtAl(strip(author_str), 1))

\* None of check_et_al_misuse
NoEtAlCheck ==
    [has_error |-> FALSE, message |-> "", severity |-> "", author_count |-> 0,
     correct_form |-> <<>>]

\* EtAlCheck with the warning raised from two authors on
EtAlCheck_WarnFromTwo(ref_data, has_et_al, author_count) ==
    IF has_et_al /\ author_count <= 2
    THEN [has_error |-> TRUE,
          message |-> "Change author per reference - use '{correct_form}', not 'et al.' (reference has only {author_count} author{s})",
          severity |-> "", author_count |-> author_count,
          correct_form |-> ref_data.author]
    ELSE IF ~has_et_al /\ author_count >= 2
    THEN [has_error |-> TRUE,
          message |-> "Consider using 'et al.' - reference has {author_count} authors, APA allows '{correct_form}'",
          severity |-> "warning", author_count |-> author_count,
          correct_form |-> extract_first_surname(ref_data.full_author)
                             \o <<" ", "e", "t", " ", "a", "l", ".">>]
    ELSE NoEtAlCheck

\* "Check for misuse": severity is "" where the returned dict has no such key,
\* message is the text of the message with its placeholders
EtAlCheck(ref_data, has_et_al, author_count) ==
    IF has_et_al /\ author_count <= 2
    THEN [has_error |-> TRUE,
          message |-> "Change author per reference - use '{correct_form}', not 'et al.' (reference has only {author_count} author{s})",
          severity |-> "", author_count |-> author_count,
          correct_form |-> ref_data.author]
    ELSE IF ~has_et_al /\ author_count >= 3
    THEN [has_error |-> TRUE,
          message |-> "Consider using 'et al.' - reference has {author_count} authors, APA allows '{correct_form}'",
          severity |-> "warning", author_count |-> author_count,
          correct_form |-> extract_first_surname(ref_data.full_author)
                             \o <<" ", "e", "t", " ", "a", "l", ".">>]
    ELSE NoEtAlCheck

check_et_al_misuse(cite_data, ref_data) ==
    EtAlCheck(ref_data,
              Contains(lower(strip(cite_data.author)), <<"e", "t", " ", "a", "l">>),
              AuthorCount(ref_data.full_author))

\* ------------------------------------------------------- abbreviation usage
\* whether the citation is one of the abbreviations of the reference
IsAbbr(cite_author_clean, ref_abbrs) ==
    \E k \in 1..Len(ref_abbrs) : ref_abbrs[k] = cite_author_clean

\* whether the citation starts with the full name of the reference
IsFull(cite_author_clean, full_author) ==
    startswith(lower(cite_author_clean),
               lower(strip(SplitOn(full_author, "(", 1, <<>>)[1])))

\* the usage events of one matched pair, one for each location from the k-th on
RECURSIVE Usages(_, _, _, _, _)
Usages(cite_data, ref_data, locs, k, is_intro) ==
    IF k > Len(locs) THEN <<>>
    ELSE <<[ref      |-> ref_data.key,
            loc      |-> locs[k],
            text     |-> cite_data.display,
            is_intro |-> is_intro,
            is_abbr  |-> ~is_intro /\ IsAbbr(strip(cite_data.author),
                                            ref_data.abbreviations),
            is_full  |-> is_intro \/ IsFull(strip(cite_data.author),
                                           ref_data.full_author),
            ref_abbr |-> ref_data.abbreviations[1]]>>
         \o Usages(cite_data, ref_data, locs, k + 1, is_intro)

\* the usage events of one matched pair
PairUsages(cite_data, ref_data, citation_locations) ==
    IF ref_data.abbreviations = <<>> THEN <<>>
    ELSE IF cite_data.key \notin DOMAIN citation_locations THEN <<>>
    ELSE Usages(cite_data, ref_data, citation_locations[cite_data.key], 1,
                Contains(cite_data.author, <<"[">>))

\* 1. Build Usage Map: the events of all pairs from the k-th on, in the order
\* they are appended
RECURSIVE UsageEvents(_, _, _, _, _)
UsageEvents(matched_pairs, citations, references, citation_locations, k) ==
    IF k > Len(matched_pairs) THEN <<>>
    ELSE (IF IndexOfKey(references, matched_pairs[k].ref) = 0 THEN <<>>
          ELSE PairUsages(citations[IndexOfKey(citations, matched_pairs[k].key)],
                          references[IndexOfKey(references, matched_pairs[k].ref)],
                          citation_locations))
         \o UsageEvents(matched_pairs, citations, references, citation_locations, k + 1)

\* the keys of ref_usage_map in insertion order
RECURSIVE UsageRefs(_, _)
UsageRefs(events, seen) ==
    IF Len(events) = 0 THEN seen
    ELSE UsageRefs(Tail(events),
                   IF events[1].ref \in Range(seen) THEN seen
                   ELSE Append(seen, events[1].ref))

\* usages.sort(key = loc) : stable insertion of a usage into a sorted list
RECURSIVE InsertByLoc(_, _)
InsertByLoc(usages, usage) ==
    IF Len(usages) = 0 THEN <<usage>>
    ELSE IF usages[Len(usages)].loc <= usage.loc THEN Append(usages, usage)
    ELSE Append(InsertByLoc(SubSeq(usages, 1, Len(usages) - 1), usage),
                usages[Len(usages)])

RECURSIVE SortByLoc(_)
SortByLoc(usages) ==
    IF Len(usages) = 0 THEN <<>>
    ELSE InsertByLoc(SortByLoc(SubSeq(usages, 1, Len(usages) - 1)), usages[Len(usages)])

\* an abbreviation error; message holds the text of the message with its
\* placeholder and the value that fills it
AbbreviationError(usage, message, arg, ref_abbr, severity) ==
    [citation |-> usage.text, message |-> [text |-> message, arg |-> arg],
     locations |-> <<usage.loc>>, ref_abbr |-> ref_abbr, severity |-> severity]

\* Check FIRST usage
FirstUsageError(first_usage) ==
    IF first_usage.is_abbr /\ ~first_usage.is_full
    THEN <<AbbreviationError(first_usage,
              "First confirmation of abbreviation should define it. Use 'Full Name [Abbr]' instead of '{text}'.",
              first_usage.text, first_usage.ref_abbr, "")>>
    ELSE <<>>

\* Check SUBSEQUENT usages, from the i-th on
RECURSIVE LaterUsageErrors(_, _, _)
LaterUsageErrors(usages, i, ref_abbr) ==
    IF i > Len(usages) THEN <<>>
    ELSE (IF usages[i].is_intro
          THEN <<AbbreviationError(usages[i],
                    "Abbreviation already introduced. Use '{ref_abbr}' instead.",
                    ref_abbr, ref_abbr, "")>>
          ELSE IF usages[i].is_full /\ ~usages[i].is_abbr
          THEN <<AbbreviationError(usages[i],
                    "Abbreviation previously introduced. Consider using '{ref_abbr}' instead.",
                    ref_abbr, ref_abbr, "warning")>>
          ELSE <<>>)
         \o LaterUsageErrors(usages, i + 1, ref_abbr)

\* the errors of one reference, usages being its sorted events
UsageErrors(usages) ==
    FirstUsageError(usages[1]) \o LaterUsageErrors(usages, 2, usages[1].ref_abbr)

\* ref_usage_map[ref_key], sorted
UsagesOf(events, ref_key) == SortByLoc(SelectSeq(events, LAMBDA u : u.ref = ref_key))

\* 2. Validate Usage Order, from the k-th reference of ref_usage_map on
RECURSIVE ValidateUsage(_, _, _)
ValidateUsage(events, refs, k) ==
    IF k > Len(refs) THEN <<>>
    ELSE UsageErrors(UsagesOf(events, refs[k])) \o ValidateUsage(events, refs, k + 1)

\* the validation of the events built
AbbreviationErrors(events) == ValidateUsage(events, UsageRefs(events, <<>>), 1)

check_abbreviation_usage(matched_pairs, citations, references, citation_locations) ==
    AbbreviationErrors(UsageEvents(matched_pairs, citations, references,
                                   citation_locations, 1))

\* ---------------------------------------------------------------- duplicates
\* the length a duplicate's text is cut to
DuplicateTextLen == 100

\* the comparison of entry i with the later entry j of processed_refs: the
\* record, or none
CompareRefs(processed_refs, i, j, len_a, len_b, ratio) ==
    IF len_a = 0 \/ len_b = 0 THEN <<>>
    ELSE IF 10 * (IF len_a < len_b THEN len_a ELSE len_b)
              < 6 * (IF len_a < len_b THEN len_b ELSE len_a) THEN <<>>
    ELSE IF 100 * ratio[1] > 85 * ratio[2]
    THEN <<[id |-> processed_refs[j].id,
            text |-> SubSeq(processed_refs[j].text, 1,
                            IF len_b < DuplicateTextLen THEN len_b
                            ELSE DuplicateTextLen),
            duplicate_of |-> processed_refs[i].id,
            score |-> Score(ratio[1] \div 2, ratio[2])]>>
    ELSE <<>>

\* the two loops of find_duplicates, from the pair (i, j) on
RECURSIVE CompareLoop(_, _, _)
CompareLoop(processed_refs, i, j) ==
    IF i > Len(processed_refs) THEN <<>>
    ELSE IF j > Len(processed_refs) THEN CompareLoop(processed_refs, i + 1, i + 2)
    ELSE CompareRefs(processed_refs, i, j,
                     Len(processed_refs[i].text), Len(processed_refs[j].text),
                     Ratio(processed_refs[i].text, processed_refs[j].text))
         \o CompareLoop(processed_refs, i, j + 1)

\* processed_refs : the key and the full text of every reference
ProcessedRefs(references, reference_details) ==
    [k \in 1..Len(references) |->
        [id   |-> references[k].key,
         text |-> IF references[k].key \in DOMAIN reference_details
                  THEN reference_details[references[k].key].text
                  ELSE references[k].display]]

\* find_duplicates of ReferenceAPAValidation.py
find_reference_duplicates(references, reference_details) ==
    CompareLoop(ProcessedRefs(references, reference_details), 1, 2)

\* ---------------------------------------------------------- validate_document
\* the characters of the model's texts in the order of their code points
CodePoints ==
    <<" ", "&", "'", "(", ")", ",", "-", ".">> \o Digits \o <<";", "<", ">">>
    \o Upper \o <<"[", "]", "_">> \o Lower \o <<"|">>

\* ord(c), up to the order
Ord(c) == CHOOSE k \in 1..Len(CodePoints) : CodePoints[k] = c

\* a < b for two strings
RECURSIVE StrLess(_, _)
StrLess(a, b) ==
    IF Len(b) = 0 THEN FALSE
    ELSE IF Len(a) = 0 THEN TRUE
    ELSE IF a[1] # b[1] THEN Ord(a[1]) < Ord(b[1])
    ELSE StrLess(Tail(a), Tail(b))

\* sorted(strings)
RECURSIVE InsertStr(_, _)
InsertStr(strings, s) ==
    IF Len(strings) = 0 THEN <<s>>
    ELSE IF ~StrLess(s, strings[Len(strings)]) THEN Append(strings, s)
    ELSE Append(InsertStr(SubSeq(strings, 1, Len(strings) - 1), s),
                strings[Len(strings)])

RECURSIVE SortStr(_)
SortStr(strings) ==
    IF Len(strings) = 0 THEN <<>>
    ELSE InsertStr(SortStr(SubSeq(strings, 1, Len(strings) - 1)),
                   strings[Len(strings)])

\* citation_locations.get(cite_key, [])
LocationsOf(citation_locations, cite_key) ==
    IF cite_key \in DOMAIN citation_locations THEN citation_locations[cite_key]
    ELSE <<>>

\* the format error appended when the citation carries warnings
FormatErrors(cite_data, locations) ==
    IF cite_data.warnings # <<>>
    THEN <<[citation |-> cite_data.display, warnings |-> cite_data.warnings,
            locations |-> locations]>>
    ELSE <<>>

\* the et al. error appended for a matched pair
EtAlErrors(cite_data, locations, et_al_check) ==
    IF et_al_check.has_error
    THEN <<[citation |-> cite_data.display,
            message |-> et_al_check.message,
            correct_form |-> et_al_check.correct_form,
            author_count |-> et_al_check.author_count,
            locations |-> locations,
            severity |-> IF et_al_check.severity = "" THEN "error"
                         ELSE et_al_check.severity]>>
    ELSE <<>>

\* YearMismatchRef with the reference author only a prefix of the citation's
RECURSIVE YearMismatchRef_Prefix(_, _, _)
YearMismatchRef_Prefix(references, cite_author, k) ==
    IF k > Len(references) THEN NoKey
    ELSE IF startswith(NormalizeAuthor(cite_author),
                       NormalizeAuthor(references[k].author))
    THEN references[k].key
    ELSE YearMismatchRef_Prefix(references, cite_author, k + 1)

\* the key of the first reference from the k-th on whose normalized author is
\* that of the citation, NoKey for none
RECURSIVE YearMismatchRef(_, _, _)
YearMismatchRef(references, cite_author, k) ==
    IF k > Len(references) THEN NoKey
    ELSE IF KeyAuthor(normalize_citation_key(references[k].author,
                                             <<"0", "0", "0", "0">>))
            = KeyAuthor(normalize_citation_key(cite_author, <<"0", "0", "0", "0">>))
    THEN references[k].key
    ELSE YearMismatchRef(references, cite_author, k + 1)

\* the containers of validate_document, empty
NoDiagnostics ==
    [valid_citations |-> <<>>, et_al_errors |-> <<>>, year_mismatches |-> <<>>,
     spelling_mismatches |-> <<>>, missing_refs |-> <<>>, format_errors |-> <<>>]

\* a matched citation
Matched(acc, cite_data, locations, ref_data) ==
    [acc EXCEPT !.valid_citations = Append(@, cite_data.display),
                !.et_al_errors = @ \o EtAlErrors(cite_data, locations,
                                              check_et_al_misuse(cite_data, ref_data)),
                !.format_errors = @ \o FormatErrors(cite_data, locations)]

\* Unmatched with the spelling mismatch looked for before the year mismatch
Unmatched_SpellingFirst(acc, cite_data, locations, references, year_ref, spelling_ref) ==
    IF spelling_ref # NoKey
    THEN [acc EXCEPT
            !.spelling_mismatches =
                Append(@, [citation |-> cite_data.display,
                           cited_author |-> strip(cite_data.author),
                           ref_author |-> references[IndexOfKey(references, spelling_ref)].author,
                           ref_key |-> spelling_ref,
                           locations |-> locations]),
            !.format_errors = @ \o FormatErrors(cite_data, locations)]
    ELSE IF year_ref # NoKey
    THEN [acc EXCEPT
            !.year_mismatches =
                Append(@, [citation |-> cite_data.display,
                           cited_year |-> cite_data.year,
                           ref_year |-> references[IndexOfKey(references, year_ref)].year,
                           ref_key |-> year_ref,
                           locations |-> locations]),
            !.format_errors = @ \o FormatErrors(cite_data, locations)]
    ELSE [acc EXCEPT
            !.missing_refs = Append(@, [reference |-> cite_data.display,
                                        cited_at_paragraphs |-> locations]),
            !.format_errors = @ \o FormatErrors(cite_data, locations)]

\* a citation no match was found for: year mismatch, else spelling mismatch,
\* else missing reference; year_ref and spelling_ref are the references found
Unmatched(acc, cite_data, locations, references, year_ref, spelling_ref) ==
    IF year_ref # NoKey
    THEN [acc EXCEPT
            !.year_mismatches =
                Append(@, [citation |-> cite_data.display,
                           cited_year |-> cite_data.year,
                           ref_year |-> references[IndexOfKey(references, year_ref)].year,
                           ref_key |-> year_ref,
                           locations |-> locations]),
            !.format_errors = @ \o FormatErrors(cite_data, locations)]
    ELSE IF spelling_ref # NoKey
    THEN [acc EXCEPT
            !.spelling_mismatches =
                Append(@, [citation |-> cite_data.display,
                           cited_author |-> strip(cite_data.author),
                           ref_author |-> references[IndexOfKey(references, spelling_ref)].author,
                           ref_key |-> spelling_ref,
                           locations |-> locations]),
            !.format_errors = @ \o FormatErrors(cite_data, locations)]
    ELSE [acc EXCEPT
            !.missing_refs = Append(@, [reference |-> cite_data.display,
                                        cited_at_paragraphs |-> locations]),
            !.format_errors = @ \o FormatErrors(cite_data, locations)]

\* the body of the loop "2. Process Matches and Identify Mismatches"
ProcessCitation(acc, cite_data, locations, references, matches) ==
    IF cite_data.key \in matches.matched_citations
    THEN Matched(acc, cite_data, locations,
                 references[IndexOfKey(references,
                                       PairOf(matches.matched_pairs, cite_data.key))])
    ELSE Unmatched(acc, cite_data, locations, references,
                   YearMismatchRef(references, strip(cite_data.author), 1),
                   check_spelling_mismatch(strip(cite_data.author), references))

\* the loop over citations.items() from the k-th on
RECURSIVE ProcessCitations(_, _, _, _, _, _)
ProcessCitations(citations, citation_locations, references, matches, k, acc) ==
    IF k > Len(citations) THEN acc
    ELSE ProcessCitations(citations, citation_locations, references, matches, k + 1,
            ProcessCitation(acc, citations[k],
                            LocationsOf(citation_locations, citations[k].key),
                            references, matches))

\* the ref_keys named by the mismatches
MismatchRefs(mismatches) == {mismatches[k].ref_key : k \in 1..Len(mismatches)}

\* UnusedRefs without the test for the references the mismatches name
RECURSIVE UnusedRefs_MatchedOnly(_, _, _, _, _)
UnusedRefs_MatchedOnly(references, reference_details, matched_references, involved, k) ==
    IF k > Len(references) THEN <<>>
    ELSE (IF references[k].key \notin matched_references
          THEN <<[reference |-> references[k].display,
                  line |-> reference_details[references[k].key].line,
                  text |-> reference_details[references[k].key].text]>>
          ELSE <<>>)
         \o UnusedRefs_MatchedOnly(references, reference_details, matched_references,
                                   involved, k + 1)

\* 4. Find Unused References, from the k-th reference on
RECURSIVE UnusedRefs(_, _, _, _, _)
UnusedRefs(references, reference_details, matched_references, involved, k) ==
    IF k > Len(references) THEN <<>>
    ELSE (IF references[k].key \notin matched_references
             /\ references[k].key \notin involved
          THEN <<[reference |-> references[k].display,
                  line |-> reference_details[references[k].key].line,
                  text |-> reference_details[references[k].key].text]>>
          ELSE <<>>)
         \o UnusedRefs(references, reference_details, matched_references, involved, k + 1)

\* the dictionary validate_document returns, from the extraction and the matches
Validation(cites, refs, matches, acc) ==
    [total_citations |-> Len(cites.citations),
     total_references |-> Len(refs.references),
     valid_count |-> Cardinality(matches.matched_citations),
     missing_references |-> acc.missing_refs,
     unused_references |->
        UnusedRefs(refs.references, refs.reference_details, matches.matched_references,
                   MismatchRefs(acc.year_mismatches) \cup MismatchRefs(acc.spelling_mismatches), 1),
     duplicates |-> find_reference_duplicates(refs.references, refs.reference_details),
     valid_citations |-> SortStr(acc.valid_citations),
     format_errors |-> acc.format_errors,
     year_mismatches |-> acc.year_mismatches,
     spelling_mismatches |-> acc.spelling_mismatches,
     et_al_errors |-> acc.et_al_errors,
     abbreviation_errors |->
        check_abbreviation_usage(matches.matched_pairs, cites.citations,
                                 refs.references, cites.citation_locations),
     all_citations |-> Keys(cites.citations),
     all_references |-> Keys(refs.references),
     matched_citation_keys |-> matches.matched_citations,
     citations |-> cites.citations,
     references |-> refs.references,
     citation_locations |-> cites.citation_locations,
     reference_details |-> refs.reference_details]

\* the validation of an extraction
Validate(cites, refs, matches) ==
    Validation(cites, refs, matches,
               ProcessCitations(cites.citations, cites.citation_locations,
                                refs.references, matches, 1, NoDiagnostics))

\* the validation of the extractions cites and refs
ValidateExtracted(cites, refs) ==
    Validate(cites, refs,
             get_citation_matches(cites.citations, refs.references, refs.abbreviation_map))

\* validate_document over the paragraphs extract_text_from_docx returns
validate_document(paragraphs) ==
    ValidateExtracted(find_citations_in_text(paragraphs),
                      find_references_in_bibliography(paragraphs))

\* ------------------------------------------------------- the citation styles
\* the styles get_parser has a parser for
APA == <<"a", "p", "a">>

VANCOUVER == <<"v", "a", "n", "c", "o", "u", "v", "e", "r">>

CHICAGO == <<"c", "h", "i", "c", "a", "g", "o">>

\* citation_style is None
NoStyle == <<"None">>

\* get_parser raises ValueError
ValueError == <<"ValueError">>

\* the paragraphs auto_detect_style is given
SampleParas == 50

UpperChar(c) == IF IsLower(c) THEN Upper[CHOOSE k \in 1..26 : Lower[k] = c] ELSE c

\* s.upper()
upper(s) == [i \in 1..Len(s) |-> UpperChar(s[i])]

\* the parser of a style, named by the key of the dictionary parsers
get_parser(style) ==
    IF strip(lower(style)) \in {APA, VANCOUVER, CHICAGO}
    THEN strip(lower(style))
    ELSE ValueError

\* the length of [a-z]* at s[i]
LowerRun(s, i) ==
    CHOOSE k \in 0..(Len(s) - i + 1) :
        /\ (i + k > Len(s) \/ ~IsLower(s[i + k]))
        /\ \A l \in 0..(k - 1) : IsLower(s[i + l])

\* the length of \s* at s[i]
SpaceRun(s, i) ==
    CHOOSE k \in 0..(Len(s) - i + 1) :
        /\ (i + k > Len(s) \/ ~IsSpace(s[i + k]))
        /\ \A l \in 0..(k - 1) : IsSpace(s[i + l])

\* \d{4}\) matches at s[i]
YearAt(s, i) ==
    /\ i + 4 <= Len(s)
    /\ \A d \in 0..3 : IsDigit(s[i + d])
    /\ s[i + 4] = ")"

\* \([A-Z][a-z]+ matches at s[i]
NameAt(s, i) ==
    /\ i + 2 <= Len(s)
    /\ s[i] = "("
    /\ IsUpper(s[i + 1])
    /\ IsLower(s[i + 2])

\* apa_pattern matches at s[i]; after is the index past the name
ApaPatternAt(s, i, after) ==
    /\ after <= Len(s)
    /\ s[after] = ","
    /\ YearAt(s, after + 1 + SpaceRun(s, after + 1))

\* vancouver_pattern matches at s[i]; after is the index past the name
VancouverPatternAt(s, i, after) ==
    /\ SpaceRun(s, after) >= 1
    /\ YearAt(s, after + SpaceRun(s, after))

\* len(re.findall(apa_pattern, text_sample)): a match holds one opening
\* parenthesis, so no two matches overlap
apa_matches(text_sample) ==
    Cardinality({i \in 1..Len(text_sample) :
                    /\ NameAt(text_sample, i)
                    /\ ApaPatternAt(text_sample, i, i + 2 + LowerRun(text_sample, i + 2))})

\* len(re.findall(vancouver_pattern, text_sample))
vancouver_matches(text_sample) ==
    Cardinality({i \in 1..Len(text_sample) :
                    /\ NameAt(text_sample, i)
                    /\ VancouverPatternAt(text_sample, i,
                                          i + 2 + LowerRun(text_sample, i + 2))})

auto_detect_style(text_sample) ==
    IF apa_matches(text_sample) > vancouver_matches(text_sample) THEN APA
    ELSE IF vancouver_matches(text_sample) > 0 THEN VANCOUVER
    ELSE APA

\* ' '.join(paragraphs[:50])
SampleText(paragraphs) ==
    join(<<" ">>, [i \in 1..(IF Len(paragraphs) < SampleParas THEN Len(paragraphs)
                             ELSE SampleParas) |-> paragraphs[i].text])

\* citation_style once detected
DetectedStyle(paragraphs, citation_style) ==
    IF citation_style = NoStyle THEN auto_detect_style(SampleText(paragraphs))
    ELSE citation_style

\* citation_style after the try: 'apa' when get_parser raised
UsedStyle(citation_style) ==
    IF get_parser(citation_style) = ValueError THEN APA ELSE citation_style

\* results['citation_style_name']
StyleName(citation_style) ==
    IF citation_style = APA
    THEN <<"A", "P", "A", " ", "(", "A", "m", "e", "r", "i", "c", "a", "n", " ",
           "P", "s", "y", "c", "h", "o", "l", "o", "g", "i", "c", "a", "l", " ",
           "A", "s", "s", "o", "c", "i", "a", "t", "i", "o", "n", ")">>
    ELSE IF citation_style = VANCOUVER
    THEN <<"V", "a", "n", "c", "o", "u", "v", "e", "r">>
    ELSE IF citation_style = CHICAGO
    THEN <<"C", "h", "i", "c", "a", "g", "o", " ", "(", "A", "u", "t", "h", "o", "r",
           "-", "Y", "e", "a", "r", ")">>
    ELSE upper(citation_style)

\* what VancouverCitationParser.parse_citation, to which
\* ChicagoCitationParser.parse_citation delegates, and the parse_reference of
\* the two parsers return for the text of a paragraph
StyleParses ==
    <<[text |-> <<"(", "L", "e", "e", ",", " ", "2", "0", "1", "9", ")">>,
        citations |-> <<[author |-> <<"L", "e", "e">>, year |-> <<"2", "0", "1", "9">>, type |-> "parenthetical", warnings |-> <<>>, list |-> 1]>>,
        vancouver |-> NoRef,
        chicago |-> NoRef],
       [text |-> <<"(", "L", "e", "e", " ", "2", "0", "1", "9", ")">>,
        citations |-> <<[author |-> <<"L", "e", "e">>, year |-> <<"2", "0", "1", "9">>, type |-> "parenthetical", warnings |-> <<>>, list |-> 1]>>,
        vancouver |-> NoRef,
        chicago |-> NoRef],
       [text |-> <<"(", "L", "e", "e", " ", "2", "0", "1", "8", ")">>,
        citations |-> <<[author |-> <<"L", "e", "e">>, year |-> <<"2", "0", "1", "8">>, type |-> "parenthetical", warnings |-> <<>>, list |-> 1]>>,
        vancouver |-> NoRef,
        chicago |-> NoRef],
       [text |-> <<"(", "L", "e", "e", "s", " ", "2", "0", "1", "9", ")">>,
        citations |-> <<[author |-> <<"L", "e", "e", "s">>, year |-> <<"2", "0", "1", "9">>, type |-> "parenthetical", warnings |-> <<>>, list |-> 1]>>,
        vancouver |-> NoRef,
        chicago |-> NoRef],
       [text |-> <<"(", "K", "i", "m", " ", "2", "0", "2", "0", ")">>,
        citations |-> <<[author |-> <<"K", "i", "m">>, year |-> <<"2", "0", "2", "0">>, type |-> "parenthetical", warnings |-> <<>>, list |-> 1]>>,
        vancouver |-> NoRef,
        chicago |-> NoRef],
       [text |-> <<"(", "L", "e", "e", " ", "e", "t", " ", "a", "l", ".", ",", " ", "2", "0", "1", "9", ")">>,
        citations |-> <<[author |-> <<"L", "e", "e", " ", "e", "t", " ", "a", "l">>, year |-> <<"2", "0", "1", "9">>, type |-> "parenthetical", warnings |-> <<>>, list |-> 1]>>,
        vancouver |-> NoRef,
        chicago |-> NoRef],
       [text |-> <<"(", "L", "e", "e", " ", "&", " ", "K", "i", "m", ",", " ", "2", "0", "1", "9", ")">>,
        citations |-> <<[author |-> <<"L", "e", "e", " ", "&", " ", "K", "i", "m">>, year |-> <<"2", "0", "1", "9">>, type |-> "parenthetical", warnings |-> <<>>, list |-> 1]>>,
        vancouver |-> NoRef,
        chicago |-> NoRef],
       [text |-> <<"(", "L", "e", "e", " ", "&", " ", "R", "o", "y", ",", " ", "2", "0", "1", "9", ")">>,
        citations |-> <<[author |-> <<"L", "e", "e", " ", "&", " ", "R", "o", "y">>, year |-> <<"2", "0", "1", "9">>, type |-> "parenthetical", warnings |-> <<>>, list |-> 1]>>,
        vancouver |-> NoRef,
        chicago |-> NoRef],
       [text |-> <<"(", "W", "H", "O", ",", " ", "2", "0", "2", "0", ")">>,
        citations |-> <<[author |-> <<"W", "H", "O">>, year |-> <<"2", "0", "2", "0">>, type |-> "parenthetical", warnings |-> <<>>, list |-> 1]>>,
        vancouver |-> NoRef,
        chicago |-> NoRef],
       [text |-> <<"(", "W", "e", "b", " ", "H", "u", "b", " ", "O", "r", "g", " ", "[", "W", "H", "O", "]", ",", " ", "2", "0", "2", "0", ")">>,
        citations |-> <<[author |-> <<"W", "e", "b", " ", "H", "u", "b", " ", "O", "r", "g">>, year |-> <<"2", "0", "2", "0">>, type |-> "parenthetical", warnings |-> <<>>, list |-> 1]>>,
        vancouver |-> NoRef,
        chicago |-> NoRef],
       [text |-> <<"(", "W", "e", "b", " ", "H", "u", "b", " ", "O", "r", "g", ",", " ", "2", "0", "2", "0", ")">>,
        citations |-> <<[author |-> <<"W", "e", "b", " ", "H", "u", "b", " ", "O", "r", "g">>, year |-> <<"2", "0", "2", "0">>, type |-> "parenthetical", warnings |-> <<>>, list |-> 1]>>,
        vancouver |-> NoRef,
        chicago |-> NoRef],
       [text |-> <<"L", "e", "e", ",", " ", "A", ".", " ", "(", "2", "0", "1", "9", ")", ".", " ", "T", ".">>,
        citations |-> <<>>,
        vancouver |-> NoRef,
        chicago |-> NoRef],
       [text |-> <<"L", "e", "e", ",", " ", "A", ".", ",", " ", "&", " ", "R", "o", "y", ",", " ", "B", ".", " ", "(", "2", "0", "1", "9", ")", ".", " ", "T", ".">>,
        citations |-> <<>>,
        vancouver |-> [author |-> <<"L", "e", "e", " ", "a", "n", "d", " ", "A">>, year |-> <<"2", "0", "1", "9">>, full_author |-> <<"L", "e", "e", ",", " ", "A">>, abbreviations |-> <<>>, valid |-> TRUE],
        chicago |-> NoRef],
       [text |-> <<"L", "e", "e", ",", " ", "A", ".", ",", " ", "R", "o", "y", ",", " ", "B", ".", ",", " ", "&", " ", "K", "i", "m", ",", " ", "C", ".", " ", "(", "2", "0", "1", "9", ")", ".", " ", "T", ".">>,
        citations |-> <<>>,
        vancouver |-> [author |-> <<"L", "e", "e", " ", "a", "n", "d", " ", "A">>, year |-> <<"2", "0", "1", "9">>, full_author |-> <<"L", "e", "e", ",", " ", "A">>, abbreviations |-> <<>>, valid |-> TRUE],
        chicago |-> NoRef],
       [text |-> <<"W", "e", "b", " ", "H", "u", "b", " ", "O", "r", "g", " ", "[", "W", "H", "O", "]", ".", " ", "(", "2", "0", "2", "0", ")", ".", " ", "T", ".">>,
        citations |-> <<>>,
        vancouver |-> NoRef,
        chicago |-> NoRef],
       [text |-> <<"W", "H", "O", ".", " ", "(", "2", "0", "2", "0", ")", ".", " ", "T", ".">>,
        citations |-> <<>>,
        vancouver |-> NoRef,
        chicago |-> NoRef],
       [text |-> <<"L", "e", "e", " ", "a", "n", "d", " ", "R", "o", "y", " ", "(", "2", "0", "1", "9", ")", ".", " ", "T", ".">>,
        citations |-> <<>>,
        vancouver |-> NoRef,
        chicago |-> NoRef],
       [text |-> <<"(", "S", "m", "i", "t", "h", ",", " ", "2", "0", "1", "9", ")">>,
        citations |-> <<[author |-> <<"S", "m", "i", "t", "h">>, year |-> <<"2", "0", "1", "9">>, type |-> "parenthetical", warnings |-> <<>>, list |-> 1]>>,
        vancouver |-> NoRef,
        chicago |-> NoRef],
       [text |-> <<"(", "J", "o", "n", "e", "s", ",", " ", "2", "0", "2", "0", ")">>,
        citations |-> <<[author |-> <<"J", "o", "n", "e", "s">>, year |-> <<"2", "0", "2", "0">>, type |-> "parenthetical", warnings |-> <<>>, list |-> 1]>>,
        vancouver |-> NoRef,
        chicago |-> NoRef],
       [text |-> <<"<", "r", "e", "f", "-", "o", "p", "e", "n", ">">>,
        citations |-> <<>>,
        vancouver |-> NoRef,
        chicago |-> NoRef],
       [text |-> <<"S", "m", "i", "t", "h", ",", " ", "J", ".", " ", "(", "2", "0", "1", "9", ")", ".", " ", "T", ".">>,
        citations |-> <<>>,
        vancouver |-> NoRef,
        chicago |-> NoRef],
       [text |-> <<"B", "r", "o", "w", "n", ",", " ", "K", ".", " ", "(", "2", "0", "2", "0", ")", ".", " ", "T", ".">>,
        citations |-> <<>>,
        vancouver |-> NoRef,
        chicago |-> NoRef],
       [text |-> <<"<", "r", "e", "f", "-", "c", "l", "o", "s", "e", ">">>,
        citations |-> <<>>,
        vancouver |-> NoRef,
        chicago |-> NoRef],
       [text |-> <<"<", "r", "e", "f", "-", "o", "p", "e", "n", ">", "<", "r", "e", "f", "-", "c", "l", "o", "s", "e", ">">>,
        citations |-> <<>>,
        vancouver |-> NoRef,
        chicago |-> NoRef],
       [text |-> <<" ", " ">>,
        citations |-> <<>>,
        vancouver |-> NoRef,
        chicago |-> NoRef],
       [text |-> <<"R", "o", "y", ",", " ", "B", ".", " ", "(", "2", "0", "2", "0", ")", ".", " ", "U", ".">>,
        citations |-> <<>>,
        vancouver |-> NoRef,
        chicago |-> NoRef],
       [text |-> <<"x", " ", "<", "r", "e", "f", "-", "o", "p", "e", "n", ">", " ", "(", "K", "i", "m", ",", " ", "2", "0", "2", "0", ")">>,
        citations |-> <<[author |-> <<"K", "i", "m">>, year |-> <<"2", "0", "2", "0">>, type |-> "parenthetical", warnings |-> <<>>, list |-> 1]>>,
        vancouver |-> NoRef,
        chicago |-> NoRef],
       [text |-> <<"L", "e", "a", ",", " ", "A", ".", " ", "(", "2", "0", "1", "9", ")", ".", " ", "T", ".">>,
        citations |-> <<>>,
        vancouver |-> NoRef,
        chicago |-> NoRef],
       [text |-> <<"L", "e", "e", ",", " ", "A", ".", " ", "(", "2", "0", "1", "9", ")", ".", " ", "T">>,
        citations |-> <<>>,
        vancouver |-> NoRef,
        chicago |-> NoRef],
       [text |-> <<"L", "e", "e", ",", " ", "A", ".", " ", "(", "2", "0", "1", "9", ")", ".", " ", "T", "a", "b", "c">>,
        citations |-> <<>>,
        vancouver |-> NoRef,
        chicago |-> NoRef],
       [text |-> <<>>,
        citations |-> <<>>,
        vancouver |-> NoRef,
        chicago |-> NoRef],
       [text |-> <<"(", "l", "e", "e", ",", " ", "2", "0", "1", "9", ")">>,
        citations |-> <<[author |-> <<"l", "e", "e">>, year |-> <<"2", "0", "1", "9">>, type |-> "parenthetical", warnings |-> <<>>, list |-> 1]>>,
        vancouver |-> NoRef,
        chicago |-> NoRef],
       [text |-> <<"(", "L", "E", "E", ",", " ", "2", "0", "1", "9", ")">>,
        citations |-> <<[author |-> <<"L", "E", "E">>, year |-> <<"2", "0", "1", "9">>, type |-> "parenthetical", warnings |-> <<>>, list |-> 1]>>,
        vancouver |-> NoRef,
        chicago |-> NoRef],
       [text |-> <<"(", "M", "c", "d", "o", "n", "a", "l", "d", ",", " ", "2", "0", "1", "9", ")">>,
        citations |-> <<[author |-> <<"M", "c", "d", "o", "n", "a", "l", "d">>, year |-> <<"2", "0", "1", "9">>, type |-> "parenthetical", warnings |-> <<>>, list |-> 1]>>,
        vancouver |-> NoRef,
        chicago |-> NoRef],
       [text |-> <<"(", "L", "e", "e", " ", "&", " ", "r", "o", "y", ",", " ", "2", "0", "1", "9", ")">>,
        citations |-> <<[author |-> <<"L", "e", "e", " ", "&", " ", "r", "o", "y">>, year |-> <<"2", "0", "1", "9">>, type |-> "parenthetical", warnings |-> <<>>, list |-> 1]>>,
        vancouver |-> NoRef,
        chicago |-> NoRef],
       [text |-> <<"(", "W", "e", "b", " ", "h", "u", "b", " ", "o", "r", "g", ",", " ", "2", "0", "2", "0", ")">>,
        citations |-> <<[author |-> <<"W", "e", "b", " ", "h", "u", "b", " ", "o", "r", "g">>, year |-> <<"2", "0", "2", "0">>, type |-> "parenthetical", warnings |-> <<>>, list |-> 1]>>,
        vancouver |-> NoRef,
        chicago |-> NoRef],
       [text |-> <<"(", "u", "n", "e", "s", "c", "o", ",", " ", "2", "0", "1", "9", ")">>,
        citations |-> <<[author |-> <<"u", "n", "e", "s", "c", "o">>, year |-> <<"2", "0", "1", "9">>, type |-> "parenthetical", warnings |-> <<>>, list |-> 1]>>,
        vancouver |-> NoRef,
        chicago |-> NoRef],
       [text |-> <<"M", "c", "D", "o", "n", "a", "l", "d", ",", " ", "A", ".", " ", "(", "2", "0", "1", "9", ")", ".", " ", "T", ".">>,
        citations |-> <<>>,
        vancouver |-> NoRef,
        chicago |-> NoRef],
       [text |-> <<"W", "e", "b", " ", "H", "u", "b", " ", "O", "r", "g", ".", " ", "(", "2", "0", "2", "0", ")", ".", " ", "T", ".">>,
        citations |-> <<>>,
        vancouver |-> NoRef,
        chicago |-> NoRef],
       [text |-> <<"U", "n", "e", "s", "c", "o", ".", " ", "(", "2", "0", "1", "9", ")", ".", " ", "T", ".">>,
        citations |-> <<>>,
        vancouver |-> NoRef,
        chicago |-> NoRef],
       [text |-> <<"L", "e", "e", ",", " ", "B", ".", " ", "(", "2", "0", "1", "9", ")", ".", " ", "U", ".">>,
        citations |-> <<>>,
        vancouver |-> NoRef,
        chicago |-> NoRef],
       [text |-> <<"L", "e", "a", ",", " ", "B", ".", " ", "(", "2", "0", "1", "9", ")", ".", " ", "U", ".">>,
        citations |-> <<>>,
        vancouver |-> NoRef,
        chicago |-> NoRef],
       [text |-> <<"W", "e", "b", " ", "H", "u", "b", " ", "O", "r", "g", " ", "[", "W", "H", "]", ".", " ", "(", "2", "0", "2", "0", ")", ".", " ", "U", ".">>,
        citations |-> <<>>,
        vancouver |-> NoRef,
        chicago |-> NoRef],
       [text |-> <<"L", "e", "o", ",", " ", "A", ".", " ", "(", "2", "0", "1", "9", ")", ".", " ", "T", "i", "t", "l", "e", " ", "o", "f", " ", "a", " ", "w", "o", "r", "k", ".">>,
        citations |-> <<>>,
        vancouver |-> NoRef,
        chicago |-> NoRef],
       [text |-> <<"L", "e", "e", ",", " ", "A", ".">>,
        citations |-> <<>>,
        vancouver |-> NoRef,
        chicago |-> NoRef],
       [text |-> <<"L", "e", "e", ",", " ", "A", ".", " ", "(", "2", "0", "1", "9", ")", ".">>,
        citations |-> <<>>,
        vancouver |-> NoRef,
        chicago |-> NoRef],
       [text |-> <<"L", "e", "e", ",", " ", "A", ".", " ", "(", "2", "0", "1", "9">>,
        citations |-> <<>>,
        vancouver |-> NoRef,
        chicago |-> NoRef],
       [text |-> <<"L", "e", "e", ".", " ", "T", ".", " ", "2", "0", "1", "9", ".">>,
        citations |-> <<>>,
        vancouver |-> [author |-> <<"L", "e", "e">>, year |-> <<"2", "0", "1", "9">>, full_author |-> <<"L", "e", "e">>, abbreviations |-> <<>>, valid |-> TRUE],
        chicago |-> NoRef],
       [text |-> <<"L", "e", "e", " ", "A", ",", " ", "R", "o", "y", " ", "B", ",", " ", "K", "i", "m", " ", "C", ".", " ", "T", ".", " ", "2", "0", "1", "9", ".">>,
        citations |-> <<>>,
        vancouver |-> [author |-> <<"L", "e", "e", " ", "A", " ", "e", "t", " ", "a", "l">>, year |-> <<"2", "0", "1", "9">>, full_author |-> <<"L", "e", "e", " ", "A", ",", " ", "R", "o", "y", " ", "B", ",", " ", "K", "i", "m", " ", "C">>, abbreviations |-> <<>>, valid |-> TRUE],
        chicago |-> NoRef],
       [text |-> <<"L", "e", "e", ",", " ", "A", "n", "n", ".", " ", "2", "0", "1", "9", ".", " ", "T", ".">>,
        citations |-> <<>>,
        vancouver |-> NoRef,
        chicago |-> [author |-> <<"L", "e", "e">>, year |-> <<"2", "0", "1", "9">>, full_author |-> <<"L", "e", "e", ",", " ", "A", "n", "n">>, abbreviations |-> <<>>, valid |-> TRUE]],
       [text |-> <<"(", "L", "e", "e", ",", " ", "2", "0", "1", "9", ",", " ", "2", "0", "2", "0", ")">>,
        citations |-> <<[author |-> <<"L", "e", "e", ",">>, year |-> <<"2", "0", "1", "9">>, type |-> "parenthetical", warnings |-> <<>>, list |-> 1], [author |-> <<"L", "e", "e", ",">>, year |-> <<"2", "0", "2", "0">>, type |-> "parenthetical", warnings |-> <<>>, list |-> 2]>>,
        vancouver |-> NoRef,
        chicago |-> NoRef],
       [text |-> <<"W", "e", "b", " ", "H", "u", "b", " ", "O", "r", "g", " ", "(", "2", "0", "2", "0", ")", ".", " ", "T", ".">>,
        citations |-> <<>>,
        vancouver |-> NoRef,
        chicago |-> NoRef],
       [text |-> <<"U", "n", "e", "s", "c", "o", " ", "(", "2", "0", "1", "9", ")", ".", " ", "T", ".">>,
        citations |-> <<>>,
        vancouver |-> NoRef,
        chicago |-> NoRef],
       [text |-> <<"L", "e", "e", ",", " ", "B", ".", " ", "(", "2", "0", "1", "8", ")", ".", " ", "U", ".">>,
        citations |-> <<>>,
        vancouver |-> NoRef,
        chicago |-> NoRef],
       [text |-> <<"L", "e", "e", ".", " ", "(", "2", "0", "1", "8", ")", ".", " ", "W", ".">>,
        citations |-> <<>>,
        vancouver |-> NoRef,
        chicago |-> NoRef],
       [text |-> <<"l", "e", "e", ",", " ", "c", ".", " ", "(", "2", "0", "1", "8", ")", ".", " ", "V", ".">>,
        citations |-> <<>>,
        vancouver |-> NoRef,
        chicago |-> NoRef],
       [text |-> <<"l", "e", "e", ",", " ", "c", ".", " ", "(", "2", "0", "1", "9", ")", ".", " ", "V", ".">>,
        citations |-> <<>>,
        vancouver |-> NoRef,
        chicago |-> NoRef]>>

\* the entry of StyleParses for a text
StyleParse(text) ==
    StyleParses[CHOOSE k \in 1..Len(StyleParses) : StyleParses[k].text = text]

\* a paragraph with what the parser returns for its text
ParseWith(parser, para) ==
    IF parser = APA THEN para
    ELSE [text |-> para.text,
          cites |-> StyleParse(para.text).citations,
          ref |-> IF parser = VANCOUVER THEN StyleParse(para.text).vancouver
                  ELSE StyleParse(para.text).chicago]

\* the paragraphs as the parser reads them
ParseParagraphs(parser, paragraphs) ==
    [i \in 1..Len(paragraphs) |-> ParseWith(parser, paragraphs[i])]

\* results with the two keys of the style
WithStyle(results, citation_style) ==
    [citation_style |-> upper(citation_style),
     citation_style_name |-> StyleName(citation_style)] @@ results

\* validate_document with the parser of the style, and the style in the results
ValidateWithStyle(paragraphs, citation_style) ==
    WithStyle(validate_document(ParseParagraphs(get_parser(citation_style), paragraphs)),
              citation_style)

validate_document_multi_style(paragraphs, citation_style) ==
    ValidateWithStyle(paragraphs, UsedStyle(DetectedStyle(paragraphs, citation_style)))

\* the values of citation_style: None, the three styles, a style written
\* otherwise, a style without a parser
StyleInputs ==
    {NoStyle, APA, VANCOUVER, CHICAGO,
     <<"C", "h", "i", "c", "a", "g", "o", " ">>, <<"m", "l", "a">>}

\* ------------------------------------------------------------- the inputs
\* Paragraphs with what APAParser.parse_citation and APAParser.parse_reference
\* return for their text.
\* paragraphs of the running text
CitePalette ==
    <<\* a citation in parentheses
       [text |-> <<"(", "L", "e", "e", ",", " ", "2", "0", "1", "9", ")">>, cites |-> <<[author |-> <<"L", "e", "e">>, year |-> <<"2", "0", "1", "9">>, type |-> "parenthetical", warnings |-> <<>>, list |-> 1]>>, ref |-> NoRef],
       \* the same citation without its comma: a warning
       [text |-> <<"(", "L", "e", "e", " ", "2", "0", "1", "9", ")">>, cites |-> <<[author |-> <<"L", "e", "e">>, year |-> <<"2", "0", "1", "9">>, type |-> "parenthetical", warnings |-> <<"Format Error: Missing comma between author and year (APA requires comma)">>, list |-> 1]>>, ref |-> NoRef],
       \* the author of a reference under another year, with a warning
       [text |-> <<"(", "L", "e", "e", " ", "2", "0", "1", "8", ")">>, cites |-> <<[author |-> <<"L", "e", "e">>, year |-> <<"2", "0", "1", "8">>, type |-> "parenthetical", warnings |-> <<"Format Error: Missing comma between author and year (APA requires comma)">>, list |-> 1]>>, ref |-> NoRef],
       \* an author one letter away from a reference's, with a warning
       [text |-> <<"(", "L", "e", "e", "s", " ", "2", "0", "1", "9", ")">>, cites |-> <<[author |-> <<"L", "e", "e", "s">>, year |-> <<"2", "0", "1", "9">>, type |-> "parenthetical", warnings |-> <<"Format Error: Missing comma between author and year (APA requires comma)">>, list |-> 1]>>, ref |-> NoRef],
       \* an author no reference is near, with a warning
       [text |-> <<"(", "K", "i", "m", " ", "2", "0", "2", "0", ")">>, cites |-> <<[author |-> <<"K", "i", "m">>, year |-> <<"2", "0", "2", "0">>, type |-> "parenthetical", warnings |-> <<"Format Error: Missing comma between author and year (APA requires comma)">>, list |-> 1]>>, ref |-> NoRef],
       \* et al.
       [text |-> <<"(", "L", "e", "e", " ", "e", "t", " ", "a", "l", ".", ",", " ", "2", "0", "1", "9", ")">>, cites |-> <<[author |-> <<"L", "e", "e", " ", "e", "t", " ", "a", "l">>, year |-> <<"2", "0", "1", "9">>, type |-> "parenthetical", warnings |-> <<>>, list |-> 1]>>, ref |-> NoRef],
       \* first and last author of a work of three
       [text |-> <<"(", "L", "e", "e", " ", "&", " ", "K", "i", "m", ",", " ", "2", "0", "1", "9", ")">>, cites |-> <<[author |-> <<"L", "e", "e", " ", "&", " ", "K", "i", "m">>, year |-> <<"2", "0", "1", "9">>, type |-> "parenthetical", warnings |-> <<>>, list |-> 1]>>, ref |-> NoRef],
       \* the two authors of a work
       [text |-> <<"(", "L", "e", "e", " ", "&", " ", "R", "o", "y", ",", " ", "2", "0", "1", "9", ")">>, cites |-> <<[author |-> <<"L", "e", "e", " ", "&", " ", "R", "o", "y">>, year |-> <<"2", "0", "1", "9">>, type |-> "parenthetical", warnings |-> <<>>, list |-> 1]>>, ref |-> NoRef],
       \* an abbreviation
       [text |-> <<"(", "W", "H", "O", ",", " ", "2", "0", "2", "0", ")">>, cites |-> <<[author |-> <<"W", "H", "O">>, year |-> <<"2", "0", "2", "0">>, type |-> "parenthetical", warnings |-> <<>>, list |-> 1]>>, ref |-> NoRef],
       \* the introduction of an abbreviation
       [text |-> <<"(", "W", "e", "b", " ", "H", "u", "b", " ", "O", "r", "g", " ", "[", "W", "H", "O", "]", ",", " ", "2", "0", "2", "0", ")">>, cites |-> <<[author |-> <<"W", "e", "b", " ", "H", "u", "b", " ", "O", "r", "g", " ", "[", "W", "H", "O", "]">>, year |-> <<"2", "0", "2", "0">>, type |-> "parenthetical", warnings |-> <<>>, list |-> 1]>>, ref |-> NoRef],
       \* the full name of an abbreviated author
       [text |-> <<"(", "W", "e", "b", " ", "H", "u", "b", " ", "O", "r", "g", ",", " ", "2", "0", "2", "0", ")">>, cites |-> <<[author |-> <<"W", "e", "b", " ", "H", "u", "b", " ", "O", "r", "g">>, year |-> <<"2", "0", "2", "0">>, type |-> "parenthetical", warnings |-> <<>>, list |-> 1]>>, ref |-> NoRef]>>

\* paragraphs of the bibliography
RefPalette ==
    <<\* one author
       [text |-> <<"L", "e", "e", ",", " ", "A", ".", " ", "(", "2", "0", "1", "9", ")", ".", " ", "T", ".">>, cites |-> <<[author |-> <<"A", ".">>, year |-> <<"2", "0", "1", "9">>, type |-> "narrative", warnings |-> <<>>, list |-> 1]>>, ref |-> [author |-> <<"L", "e", "e">>, year |-> <<"2", "0", "1", "9">>, full_author |-> <<"L", "e", "e", ",", " ", "A", ".">>, abbreviations |-> <<>>, valid |-> TRUE]],
       \* two authors
       [text |-> <<"L", "e", "e", ",", " ", "A", ".", ",", " ", "&", " ", "R", "o", "y", ",", " ", "B", ".", " ", "(", "2", "0", "1", "9", ")", ".", " ", "T", ".">>, cites |-> <<[author |-> <<"B", ".">>, year |-> <<"2", "0", "1", "9">>, type |-> "narrative", warnings |-> <<>>, list |-> 1]>>, ref |-> [author |-> <<"L", "e", "e", " ", "&", " ", "R", "o", "y">>, year |-> <<"2", "0", "1", "9">>, full_author |-> <<"L", "e", "e", ",", " ", "A", ".", ",", " ", "&", " ", "R", "o", "y", ",", " ", "B", ".">>, abbreviations |-> <<>>, valid |-> TRUE]],
       \* three authors
       [text |-> <<"L", "e", "e", ",", " ", "A", ".", ",", " ", "R", "o", "y", ",", " ", "B", ".", ",", " ", "&", " ", "K", "i", "m", ",", " ", "C", ".", " ", "(", "2", "0", "1", "9", ")", ".", " ", "T", ".">>, cites |-> <<[author |-> <<"C", ".">>, year |-> <<"2", "0", "1", "9">>, type |-> "narrative", warnings |-> <<>>, list |-> 1]>>, ref |-> [author |-> <<"L", "e", "e", " ", "&", " ", "K", "i", "m">>, year |-> <<"2", "0", "1", "9">>, full_author |-> <<"L", "e", "e", ",", " ", "A", ".", ",", " ", "R", "o", "y", ",", " ", "B", ".", ",", " ", "&", " ", "K", "i", "m", ",", " ", "C", ".">>, abbreviations |-> <<>>, valid |-> TRUE]],
       \* an author that declares an abbreviation
       [text |-> <<"W", "e", "b", " ", "H", "u", "b", " ", "O", "r", "g", " ", "[", "W", "H", "O", "]", ".", " ", "(", "2", "0", "2", "0", ")", ".", " ", "T", ".">>, cites |-> <<[author |-> <<"U", "n", "k", "n", "o", "w", "n">>, year |-> <<"2", "0", "2", "0">>, type |-> "parenthetical", warnings |-> <<"Warning: Missing Author">>, list |-> 1]>>, ref |-> [author |-> <<"W", "e", "b", " ", "H", "u", "b", " ", "O", "r", "g", " ", ".">>, year |-> <<"2", "0", "2", "0">>, full_author |-> <<"W", "e", "b", " ", "H", "u", "b", " ", "O", "r", "g", " ", "[", "W", "H", "O", "]", ".">>, abbreviations |-> <<<<"W", "H", "O">>>>, valid |-> TRUE]],
       \* an author named as that abbreviation
       [text |-> <<"W", "H", "O", ".", " ", "(", "2", "0", "2", "0", ")", ".", " ", "T", ".">>, cites |-> <<[author |-> <<"W", "H", "O", ".">>, year |-> <<"2", "0", "2", "0">>, type |-> "narrative", warnings |-> <<>>, list |-> 1]>>, ref |-> [author |-> <<"W", "H", "O", ".">>, year |-> <<"2", "0", "2", "0">>, full_author |-> <<"W", "H", "O", ".">>, abbreviations |-> <<>>, valid |-> TRUE]],
       \* two authors joined by a word
       [text |-> <<"L", "e", "e", " ", "a", "n", "d", " ", "R", "o", "y", " ", "(", "2", "0", "1", "9", ")", ".", " ", "T", ".">>, cites |-> <<[author |-> <<"L", "e", "e", " ", "a", "n", "d", " ", "R", "o", "y">>, year |-> <<"2", "0", "1", "9">>, type |-> "narrative", warnings |-> <<>>, list |-> 1]>>, ref |-> [author |-> <<"L", "e", "e", " ", "a", "n", "d", " ", "R", "o", "y">>, year |-> <<"2", "0", "1", "9">>, full_author |-> <<"L", "e", "e", " ", "a", "n", "d", " ", "R", "o", "y">>, abbreviations |-> <<>>, valid |-> TRUE]]>>

\* spec example: two citations, of which one has a reference, and an uncited
\* reference
ExampleDoc ==
    <<[text |-> <<"(", "S", "m", "i", "t", "h", ",", " ", "2", "0", "1", "9", ")">>, cites |-> <<[author |-> <<"S", "m", "i", "t", "h">>, year |-> <<"2", "0", "1", "9">>, type |-> "parenthetical", warnings |-> <<>>, list |-> 1]>>, ref |-> NoRef],
      [text |-> <<"(", "J", "o", "n", "e", "s", ",", " ", "2", "0", "2", "0", ")">>, cites |-> <<[author |-> <<"J", "o", "n", "e", "s">>, year |-> <<"2", "0", "2", "0">>, type |-> "parenthetical", warnings |-> <<>>, list |-> 1]>>, ref |-> NoRef],
      [text |-> <<"<", "r", "e", "f", "-", "o", "p", "e", "n", ">">>, cites |-> <<>>, ref |-> NoRef],
      [text |-> <<"S", "m", "i", "t", "h", ",", " ", "J", ".", " ", "(", "2", "0", "1", "9", ")", ".", " ", "T", ".">>, cites |-> <<[author |-> <<"J", ".">>, year |-> <<"2", "0", "1", "9">>, type |-> "narrative", warnings |-> <<>>, list |-> 1]>>, ref |-> [author |-> <<"S", "m", "i", "t", "h">>, year |-> <<"2", "0", "1", "9">>, full_author |-> <<"S", "m", "i", "t", "h", ",", " ", "J", ".">>, abbreviations |-> <<>>, valid |-> TRUE]],
      [text |-> <<"B", "r", "o", "w", "n", ",", " ", "K", ".", " ", "(", "2", "0", "2", "0", ")", ".", " ", "T", ".">>, cites |-> <<[author |-> <<"K", ".">>, year |-> <<"2", "0", "2", "0">>, type |-> "narrative", warnings |-> <<>>, list |-> 1]>>, ref |-> [author |-> <<"B", "r", "o", "w", "n">>, year |-> <<"2", "0", "2", "0">>, full_author |-> <<"B", "r", "o", "w", "n", ",", " ", "K", ".">>, abbreviations |-> <<>>, valid |-> TRUE]],
      [text |-> <<"<", "r", "e", "f", "-", "c", "l", "o", "s", "e", ">">>, cites |-> <<>>, ref |-> NoRef]>>

\* paragraphs the marker scan is tried on
ScanPalette ==
    <<\* the opening marker
       [text |-> <<"<", "r", "e", "f", "-", "o", "p", "e", "n", ">">>, cites |-> <<>>, ref |-> NoRef],
       \* the closing marker
       [text |-> <<"<", "r", "e", "f", "-", "c", "l", "o", "s", "e", ">">>, cites |-> <<>>, ref |-> NoRef],
       \* both markers in one paragraph
       [text |-> <<"<", "r", "e", "f", "-", "o", "p", "e", "n", ">", "<", "r", "e", "f", "-", "c", "l", "o", "s", "e", ">">>, cites |-> <<>>, ref |-> NoRef],
       \* a blank paragraph
       [text |-> <<" ", " ">>, cites |-> <<>>, ref |-> NoRef],
       \* a citation
       [text |-> <<"(", "L", "e", "e", ",", " ", "2", "0", "1", "9", ")">>, cites |-> <<[author |-> <<"L", "e", "e">>, year |-> <<"2", "0", "1", "9">>, type |-> "parenthetical", warnings |-> <<>>, list |-> 1]>>, ref |-> NoRef],
       \* a reference, which also reads as a citation of its initial
       [text |-> <<"L", "e", "e", ",", " ", "A", ".", " ", "(", "2", "0", "1", "9", ")", ".", " ", "T", ".">>, cites |-> <<[author |-> <<"A", ".">>, year |-> <<"2", "0", "1", "9">>, type |-> "narrative", warnings |-> <<>>, list |-> 1]>>, ref |-> [author |-> <<"L", "e", "e">>, year |-> <<"2", "0", "1", "9">>, full_author |-> <<"L", "e", "e", ",", " ", "A", ".">>, abbreviations |-> <<>>, valid |-> TRUE]],
       \* another reference
       [text |-> <<"R", "o", "y", ",", " ", "B", ".", " ", "(", "2", "0", "2", "0", ")", ".", " ", "U", ".">>, cites |-> <<[author |-> <<"B", ".">>, year |-> <<"2", "0", "2", "0">>, type |-> "narrative", warnings |-> <<>>, list |-> 1]>>, ref |-> [author |-> <<"R", "o", "y">>, year |-> <<"2", "0", "2", "0">>, full_author |-> <<"R", "o", "y", ",", " ", "B", ".">>, abbreviations |-> <<>>, valid |-> TRUE]],
       \* the opening marker inside a paragraph with a citation
       [text |-> <<"x", " ", "<", "r", "e", "f", "-", "o", "p", "e", "n", ">", " ", "(", "K", "i", "m", ",", " ", "2", "0", "2", "0", ")">>, cites |-> <<[author |-> <<"K", "i", "m">>, year |-> <<"2", "0", "2", "0">>, type |-> "parenthetical", warnings |-> <<>>, list |-> 1]>>, ref |-> NoRef]>>

\* bibliography entries duplicate detection is tried on
DupPalette ==
    <<\* an entry
       [text |-> <<"L", "e", "e", ",", " ", "A", ".", " ", "(", "2", "0", "1", "9", ")", ".", " ", "T", ".">>, cites |-> <<[author |-> <<"A", ".">>, year |-> <<"2", "0", "1", "9">>, type |-> "narrative", warnings |-> <<>>, list |-> 1]>>, ref |-> [author |-> <<"L", "e", "e">>, year |-> <<"2", "0", "1", "9">>, full_author |-> <<"L", "e", "e", ",", " ", "A", ".">>, abbreviations |-> <<>>, valid |-> TRUE]],
       \* one letter apart, another key
       [text |-> <<"L", "e", "a", ",", " ", "A", ".", " ", "(", "2", "0", "1", "9", ")", ".", " ", "T", ".">>, cites |-> <<[author |-> <<"A", ".">>, year |-> <<"2", "0", "1", "9">>, type |-> "narrative", warnings |-> <<>>, list |-> 1]>>, ref |-> [author |-> <<"L", "e", "a">>, year |-> <<"2", "0", "1", "9">>, full_author |-> <<"L", "e", "a", ",", " ", "A", ".">>, abbreviations |-> <<>>, valid |-> TRUE]],
       \* one character shorter, the same key
       [text |-> <<"L", "e", "e", ",", " ", "A", ".", " ", "(", "2", "0", "1", "9", ")", ".", " ", "T">>, cites |-> <<[author |-> <<"A", ".">>, year |-> <<"2", "0", "1", "9">>, type |-> "narrative", warnings |-> <<>>, list |-> 1]>>, ref |-> [author |-> <<"L", "e", "e">>, year |-> <<"2", "0", "1", "9">>, full_author |-> <<"L", "e", "e", ",", " ", "A", ".">>, abbreviations |-> <<>>, valid |-> TRUE]],
       \* an unrelated entry
       [text |-> <<"R", "o", "y", ",", " ", "B", ".", " ", "(", "2", "0", "2", "0", ")", ".", " ", "U", ".">>, cites |-> <<[author |-> <<"B", ".">>, year |-> <<"2", "0", "2", "0">>, type |-> "narrative", warnings |-> <<>>, list |-> 1]>>, ref |-> [author |-> <<"R", "o", "y">>, year |-> <<"2", "0", "2", "0">>, full_author |-> <<"R", "o", "y", ",", " ", "B", ".">>, abbreviations |-> <<>>, valid |-> TRUE]],
       \* three characters longer
       [text |-> <<"L", "e", "e", ",", " ", "A", ".", " ", "(", "2", "0", "1", "9", ")", ".", " ", "T", "a", "b", "c">>, cites |-> <<[author |-> <<"A", ".">>, year |-> <<"2", "0", "1", "9">>, type |-> "narrative", warnings |-> <<>>, list |-> 1]>>, ref |-> [author |-> <<"L", "e", "e">>, year |-> <<"2", "0", "1", "9">>, full_author |-> <<"L", "e", "e", ",", " ", "A", ".">>, abbreviations |-> <<>>, valid |-> TRUE]],
       \* no text
       [text |-> <<>>, cites |-> <<>>, ref |-> NoRef]>>

\* ------------------------------------------------------------ the machine
VARIABLES
    doc,          \* the document (body, styles) the processor holds
    doc0,         \* the document as it was loaded
    mid,          \* the body between the two steps of the last renumber
    op,           \* the operation that ran: "none", "process", "renumber", "stats"
    before_stats, \* process_document: the statistics before
    after_stats,  \* the statistics returned last
    mapping,      \* the mapping returned last
    status_msg,   \* process_document: the status message
    renumbered,   \* whether the renumber transform ran
    nums,         \* input list of the pure functions
    text,         \* format_numbers(nums), once computed
    parsed,       \* get_numbers(text), once computed
    issues,       \* the sequence issues of nums read as all_cited
    step,         \* position of the pure-function run
    paragraphs,   \* the paragraphs read from the file, as the parser in use reads them
    cites,        \* (citations, citation_locations)
    refs,         \* (references, reference_details, abbreviation_map)
    matches,      \* (matched_citations, matched_references, matched_pairs)
    result,       \* the dictionary validate_document returns
    apa_op,       \* position of the name-year validation
    citation_style, \* validate_document_multi_style: the style asked for
    duplicates,   \* find_duplicates: the list returned
    dup_op,       \* position of the duplicate search
    author_part,  \* normalize_citation_key: the author text
    year,         \* normalize_citation_key: the year
    norm_key,     \* normalize_citation_key(author_part, year), once computed
    renorm_key,   \* the key of the author of norm_key and year, once computed
    key_op,       \* position of the key run
    et_al_cite,   \* check_et_al_misuse: cite_data
    et_al_ref,    \* check_et_al_misuse: ref_data
    ref_author_count, \* check_et_al_misuse: its author_count
    et_al_result, \* check_et_al_misuse: the value returned
    et_al_op,     \* position of the et al. run
    copy_run      \* what the ReferenceProcessor of src/app_server.py leaves of doc0

vars == <<doc, doc0, mid, op, before_stats, after_stats, mapping, status_msg,
          renumbered, nums, text, parsed, issues, step, paragraphs, cites, refs,
          matches, result, apa_op, citation_style, duplicates, dup_op,
          author_part, year,
          norm_key, renorm_key, key_op, et_al_cite, et_al_ref, ref_author_count,
          et_al_result, et_al_op, copy_run>>

keyVars == <<author_part, year, norm_key, renorm_key, key_op>>

etAlVars == <<et_al_cite, et_al_ref, ref_author_count, et_al_result, et_al_op>>

docVars == <<doc, doc0, mid, op, before_stats, after_stats, mapping, status_msg,
             renumbered, copy_run>>

numVars == <<nums, text, parsed, issues, step>>

apaVars == <<paragraphs, cites, refs, matches, result, apa_op, citation_style,
             duplicates, dup_op,
             keyVars, etAlVars>>

NoStats ==
    [total_references |-> 0, total_citations |-> 0, missing_references |-> <<>>,
     unused_references |-> <<>>, duplicate_references |-> <<>>,
     sequence_issues |-> <<>>, is_perfect |-> TRUE]

NoStatus == [text |-> "", count |-> 0]

\* the code of src/app_server.py has not run
NoCopy ==
    [doc |-> [body |-> <<>>, styles |-> {}], mapping |-> <<>>,
     before |-> NoStats, after |-> NoStats, status_msg |-> NoStatus]

\* Body elements the documents are made of.
Plain(t) == Run("Default Paragraph Font", FALSE, t)
Cite(t)  == Run("cite_bib", FALSE, t)
Sup(t)   == Run("Default Paragraph Font", TRUE, t)
BibNo(t) == Run("bib_number", FALSE, t)

Palette ==
    { \* text: a citation run after plain text
      Para("Normal", <<Plain(<<"x">>), Cite(<<"2">>)>>),
      \* text: one citation run with a list that repeats a number
      Para("Normal", <<Cite(<<"2", ",", "1", ",", "2">>)>>),
      \* text: one citation split over two contiguous superscript runs
      Para("Normal", <<Sup(<<"2", ",">>), Sup(<<"1">>)>>),
      \* text: two citations written with the ^numbers^ fallback
      Para("Normal", <<Plain(<<"x", "^", "2", "^", " ", "^", "1", "^">>)>>),
      \* text: a parenthesised number that is no citation
      Para("Normal", <<Plain(<<"(", "3", ")", " ", "x">>)>>),
      \* a table with a citation in a cell
      Tbl(<<Para("Normal", <<Cite(<<"1">>)>>)>>),
      \* bibliography: ids in a bib_number run
      Para("REF-N", <<BibNo(<<"1">>), Plain(<<" ", "A">>)>>),
      Para("REF-N", <<BibNo(<<"2", ".">>), Plain(<<" ", "B">>)>>),
      \* bibliography: id as leading integer of the text
      Para("REF-N", <<Plain(<<"2", " ", "D">>)>>),
      \* bibliography: bracketed id in a bib_number run
      Para("REF-N", <<BibNo(<<"[", "1", "]">>), Plain(<<" ", "E">>)>>),
      \* a REF-N paragraph without an id
      Para("REF-N", <<Plain(<<"x">>)>>) }

\* the styles a body uses
StylesOf(body) ==
    LET ps == iter_document_paragraphs(body)
    IN {ps[i].style : i \in 1..Len(ps)}
       \cup UNION {{ps[i].runs[j].style : j \in 1..Len(ps[i].runs)} : i \in 1..Len(ps)}

\* the bodies of at most MaxParas elements, each with its identity eid
Bodies ==
    UNION {{[k \in 1..n |-> [b[k] EXCEPT !.eid = k]] : b \in [1..n -> Palette]}
           : n \in 0..MaxParas}

\* the lists of at most MaxLen numbers up to MaxNum
NumLists == UNION {[1..n -> 0..MaxNum] : n \in 0..MaxLen}

NoCitations == [citations |-> <<>>, citation_locations |-> <<>>]

NoReferences ==
    [references |-> <<>>, reference_details |-> <<>>, abbreviation_map |-> <<>>]

NoMatches ==
    [matched_citations |-> {}, matched_references |-> {}, matched_pairs |-> <<>>]

KeyIdle ==
    /\ author_part = <<>>
    /\ year = <<>>
    /\ norm_key = <<>>
    /\ renorm_key = <<>>
    /\ key_op = "idle"

EtAlIdle ==
    /\ et_al_cite = <<>>
    /\ et_al_ref = <<>>
    /\ ref_author_count = 0
    /\ et_al_result = <<>>
    /\ et_al_op = "idle"

ApaIdle ==
    /\ KeyIdle
    /\ EtAlIdle
    /\ paragraphs = <<>>
    /\ cites = NoCitations
    /\ refs = NoReferences
    /\ matches = NoMatches
    /\ result = <<>>
    /\ apa_op = "idle"
    /\ citation_style = NoStyle
    /\ duplicates = <<>>
    /\ dup_op = "idle"

DocIdle ==
    /\ doc = [body |-> <<>>, styles |-> {}]
    /\ doc0 = doc
    /\ mid = <<>>
    /\ op = "none"
    /\ before_stats = NoStats
    /\ after_stats = NoStats
    /\ mapping = <<>>
    /\ status_msg = NoStatus
    /\ renumbered = FALSE
    /\ copy_run = NoCopy

NumIdle ==
    /\ nums = <<>>
    /\ text = <<>>
    /\ parsed = <<>>
    /\ issues = <<>>
    /\ step = "idle"

\* Document(file); ReferenceProcessor(doc)
Init ==
    /\ \E b \in Bodies : doc = [body |-> b, styles |-> StylesOf(b)]
    /\ doc0 = doc
    /\ mid = doc.body
    /\ op = "none"
    /\ before_stats = NoStats
    /\ after_stats = NoStats
    /\ mapping = <<>>
    /\ status_msg = NoStatus
    /\ renumbered = FALSE
    /\ copy_run = NoCopy
    /\ NumIdle
    /\ ApaIdle

\* process_document(file)
ProcessDocument ==
    /\ op = "none"
    /\ \E r \in {process_document(doc)} :
          /\ doc' = r.doc
          /\ mid' = r.mid
          /\ before_stats' = r.before
          /\ after_stats' = r.after
          /\ mapping' = r.mapping
          /\ status_msg' = r.status_msg
          /\ renumbered' = r.renumbered
    /\ op' = "process"
    /\ UNCHANGED <<doc0, copy_run, numVars, apaVars>>

\* ReferenceProcessor(doc).renumber()
Renumber ==
    /\ op = "none"
    /\ \E r \in {renumber(doc)} :
          /\ doc' = r.doc
          /\ mid' = r.mid
          /\ mapping' = r.mapping
    /\ renumbered' = TRUE
    /\ op' = "renumber"
    /\ UNCHANGED <<doc0, before_stats, after_stats, status_msg, copy_run, numVars,
                   apaVars>>

\* ReferenceProcessor(doc).get_validation_stats()
GetValidationStats ==
    /\ op = "none"
    /\ after_stats' = get_validation_stats(doc.body)
    /\ op' = "stats"
    /\ UNCHANGED <<doc, doc0, mid, before_stats, mapping, status_msg, renumbered,
                   copy_run, numVars, apaVars>>

\* process_document(file_path) of src/app_server.py
AppProcessDocument ==
    /\ op = "none"
    /\ copy_run' = app_server_process_document(doc)
    /\ op' = "app_process"
    /\ UNCHANGED <<doc, doc0, mid, before_stats, after_stats, mapping, status_msg,
                   renumbered, numVars, apaVars>>

Next == ProcessDocument \/ Renumber \/ GetValidationStats \/ AppProcessDocument

Spec == Init /\ [][Next]_vars

\* --------------------------------------------- process_document, run twice
\* process_document on the document a first run has just renumbered; doc0
\* keeps the document the second run started from
ProcessAgain ==
    /\ op = "process"
    /\ renumbered
    /\ \E r \in {process_document(doc)} :
          /\ doc' = r.doc
          /\ mid' = r.mid
          /\ before_stats' = r.before
          /\ after_stats' = r.after
          /\ mapping' = r.mapping
          /\ status_msg' = r.status_msg
          /\ renumbered' = r.renumbered
    /\ doc0' = doc
    /\ op' = "again"
    /\ UNCHANGED <<copy_run, numVars, apaVars>>

NextAgain == ProcessDocument \/ ProcessAgain

SpecAgain == Init /\ [][NextAgain]_vars

\* ------------------------------------------------- the two copies of renumber
\* ReferenceProcessor(doc0).renumber() of src/app_server.py, on the document
\* the renumber of src/Referencenumvalidation.py started from
RenumberCopy ==
    /\ op = "renumber"
    /\ \E r \in {app_server_renumber(doc0)} :
          copy_run' = [copy_run EXCEPT !.doc = r.doc, !.mapping = r.mapping]
    /\ op' = "copy"
    /\ UNCHANGED <<doc, doc0, mid, before_stats, after_stats, mapping, status_msg,
                   renumbered, numVars, apaVars>>

NextCopy == Renumber \/ RenumberCopy

SpecCopy == Init /\ [][NextCopy]_vars

\* ------------------------------------------------ the bibliography reorder
\* Body elements the reorder is tried on: text that cites, a table, entries
\* with and without an id-bearing run.
ReorderPalette ==
    { Para("Normal", <<Plain(<<"x">>), Cite(<<"2">>)>>),
      Para("Normal", <<Cite(<<"2", ",", "1", ",", "2">>)>>),
      Tbl(<<Para("Normal", <<Cite(<<"1">>)>>)>>),
      Para("REF-N", <<BibNo(<<"1">>), Plain(<<" ", "A">>)>>),
      Para("REF-N", <<BibNo(<<"2", ".">>), Plain(<<" ", "B">>)>>),
      Para("REF-N", <<Plain(<<"2", " ", "D">>)>>) }

\* the bodies of at most MaxReorder of them, each with its identity eid
ReorderBodies ==
    UNION {{[k \in 1..n |-> [b[k] EXCEPT !.eid = k]] : b \in [1..n -> ReorderPalette]}
           : n \in 0..MaxReorder}

InitReorder ==
    /\ \E b \in ReorderBodies : doc = [body |-> b, styles |-> StylesOf(b)]
    /\ doc0 = doc
    /\ mid = doc.body
    /\ op = "none"
    /\ before_stats = NoStats
    /\ after_stats = NoStats
    /\ mapping = <<>>
    /\ status_msg = NoStatus
    /\ renumbered = FALSE
    /\ copy_run = NoCopy
    /\ NumIdle
    /\ ApaIdle

NextReorder == ProcessDocument \/ Renumber

SpecReorder == InitReorder /\ [][NextReorder]_vars

\* The pure functions on lists of numbers.
InitNum ==
    /\ DocIdle
    /\ nums \in NumLists
    /\ text = <<>>
    /\ parsed = <<>>
    /\ issues = <<>>
    /\ step = "input"
    /\ ApaIdle

\* format_numbers(nums)
FormatNumbers ==
    /\ step = "input"
    /\ text' = format_numbers(nums)
    /\ step' = "formatted"
    /\ UNCHANGED <<nums, parsed, issues, docVars, apaVars>>

\* get_numbers(text)
GetNumbers ==
    /\ step = "formatted"
    /\ parsed' = get_numbers(text)
    /\ step' = "parsed"
    /\ UNCHANGED <<nums, text, issues, docVars, apaVars>>

\* the sequence walk of get_validation_stats over all_cited = nums
SequenceWalk ==
    /\ step = "input"
    /\ issues' = SequenceIssues(nums, 1, <<>>)
    /\ step' = "walked"
    /\ UNCHANGED <<nums, text, parsed, docVars, apaVars>>

NextNum == FormatNumbers \/ GetNumbers \/ SequenceWalk

SpecNum == InitNum /\ [][NextNum]_vars

\* citations that differ from a reference in capitals
CaseCitePalette ==
    <<\* the author as the reference writes it
       [text |-> <<"(", "L", "e", "e", ",", " ", "2", "0", "1", "9", ")">>, cites |-> <<[author |-> <<"L", "e", "e">>, year |-> <<"2", "0", "1", "9">>, type |-> "parenthetical", warnings |-> <<>>, list |-> 1]>>, ref |-> NoRef],
       \* one word, its capital dropped
       [text |-> <<"(", "l", "e", "e", ",", " ", "2", "0", "1", "9", ")">>, cites |-> <<[author |-> <<"l", "e", "e">>, year |-> <<"2", "0", "1", "9">>, type |-> "parenthetical", warnings |-> <<>>, list |-> 1]>>, ref |-> NoRef],
       \* one word, in capitals
       [text |-> <<"(", "L", "E", "E", ",", " ", "2", "0", "1", "9", ")">>, cites |-> <<[author |-> <<"L", "E", "E">>, year |-> <<"2", "0", "1", "9">>, type |-> "parenthetical", warnings |-> <<>>, list |-> 1]>>, ref |-> NoRef],
       \* two names, the capital of the second dropped
       [text |-> <<"(", "L", "e", "e", " ", "&", " ", "r", "o", "y", ",", " ", "2", "0", "1", "9", ")">>, cites |-> <<[author |-> <<"L", "e", "e", " ", "&", " ", "r", "o", "y">>, year |-> <<"2", "0", "1", "9">>, type |-> "parenthetical", warnings |-> <<>>, list |-> 1]>>, ref |-> NoRef],
       \* three words, two capitals dropped
       [text |-> <<"(", "W", "e", "b", " ", "h", "u", "b", " ", "o", "r", "g", ",", " ", "2", "0", "2", "0", ")">>, cites |-> <<[author |-> <<"W", "e", "b", " ", "h", "u", "b", " ", "o", "r", "g">>, year |-> <<"2", "0", "2", "0">>, type |-> "parenthetical", warnings |-> <<>>, list |-> 1]>>, ref |-> NoRef],
       \* one word that is the whole author of a reference
       [text |-> <<"(", "u", "n", "e", "s", "c", "o", ",", " ", "2", "0", "1", "9", ")">>, cites |-> <<[author |-> <<"u", "n", "e", "s", "c", "o">>, year |-> <<"2", "0", "1", "9">>, type |-> "parenthetical", warnings |-> <<>>, list |-> 1]>>, ref |-> NoRef]>>

\* the references they are read against: for each citation a reference
\* of its author but for the capitals, and entries that compete with it
CaseRefPalette ==
    <<\* one author
       [text |-> <<"L", "e", "e", ",", " ", "A", ".", " ", "(", "2", "0", "1", "9", ")", ".", " ", "T", ".">>, cites |-> <<[author |-> <<"A", ".">>, year |-> <<"2", "0", "1", "9">>, type |-> "narrative", warnings |-> <<>>, list |-> 1]>>, ref |-> [author |-> <<"L", "e", "e">>, year |-> <<"2", "0", "1", "9">>, full_author |-> <<"L", "e", "e", ",", " ", "A", ".">>, abbreviations |-> <<>>, valid |-> TRUE]],
       \* two authors
       [text |-> <<"L", "e", "e", ",", " ", "A", ".", ",", " ", "&", " ", "R", "o", "y", ",", " ", "B", ".", " ", "(", "2", "0", "1", "9", ")", ".", " ", "T", ".">>, cites |-> <<[author |-> <<"B", ".">>, year |-> <<"2", "0", "1", "9">>, type |-> "narrative", warnings |-> <<>>, list |-> 1]>>, ref |-> [author |-> <<"L", "e", "e", " ", "&", " ", "R", "o", "y">>, year |-> <<"2", "0", "1", "9">>, full_author |-> <<"L", "e", "e", ",", " ", "A", ".", ",", " ", "&", " ", "R", "o", "y", ",", " ", "B", ".">>, abbreviations |-> <<>>, valid |-> TRUE]],
       \* an author of three words
       [text |-> <<"W", "e", "b", " ", "H", "u", "b", " ", "O", "r", "g", " ", "(", "2", "0", "2", "0", ")", ".", " ", "T", ".">>, cites |-> <<[author |-> <<"W", "e", "b", " ", "H", "u", "b", " ", "O", "r", "g">>, year |-> <<"2", "0", "2", "0">>, type |-> "narrative", warnings |-> <<>>, list |-> 1]>>, ref |-> [author |-> <<"W", "e", "b", " ", "H", "u", "b", " ", "O", "r", "g">>, year |-> <<"2", "0", "2", "0">>, full_author |-> <<"W", "e", "b", " ", "H", "u", "b", " ", "O", "r", "g">>, abbreviations |-> <<<<"W", "H", "O">>>>, valid |-> TRUE]],
       \* an author of one word, without initials
       [text |-> <<"U", "n", "e", "s", "c", "o", " ", "(", "2", "0", "1", "9", ")", ".", " ", "T", ".">>, cites |-> <<[author |-> <<"U", "n", "e", "s", "c", "o">>, year |-> <<"2", "0", "1", "9">>, type |-> "narrative", warnings |-> <<>>, list |-> 1]>>, ref |-> [author |-> <<"U", "n", "e", "s", "c", "o">>, year |-> <<"2", "0", "1", "9">>, full_author |-> <<"U", "n", "e", "s", "c", "o">>, abbreviations |-> <<>>, valid |-> TRUE]],
       \* the first author again, under another year
       [text |-> <<"L", "e", "e", ",", " ", "B", ".", " ", "(", "2", "0", "1", "8", ")", ".", " ", "U", ".">>, cites |-> <<[author |-> <<"B", ".">>, year |-> <<"2", "0", "1", "8">>, type |-> "narrative", warnings |-> <<>>, list |-> 1]>>, ref |-> [author |-> <<"L", "e", "e">>, year |-> <<"2", "0", "1", "8">>, full_author |-> <<"L", "e", "e", ",", " ", "B", ".">>, abbreviations |-> <<>>, valid |-> TRUE]],
       \* the same with a full stop, under the key of the entry before
       [text |-> <<"L", "e", "e", ".", " ", "(", "2", "0", "1", "8", ")", ".", " ", "W", ".">>, cites |-> <<[author |-> <<"L", "e", "e", ".">>, year |-> <<"2", "0", "1", "8">>, type |-> "narrative", warnings |-> <<>>, list |-> 1]>>, ref |-> [author |-> <<"L", "e", "e", ".">>, year |-> <<"2", "0", "1", "8">>, full_author |-> <<"L", "e", "e", ".">>, abbreviations |-> <<>>, valid |-> TRUE]],
       \* the author as a citation writes it, under another year
       [text |-> <<"l", "e", "e", ",", " ", "c", ".", " ", "(", "2", "0", "1", "8", ")", ".", " ", "V", ".">>, cites |-> <<[author |-> <<"U", "n", "k", "n", "o", "w", "n">>, year |-> <<"2", "0", "1", "8">>, type |-> "parenthetical", warnings |-> <<"Warning: Missing Author">>, list |-> 1]>>, ref |-> [author |-> <<"l", "e", "e">>, year |-> <<"2", "0", "1", "8">>, full_author |-> <<"l", "e", "e", ",", " ", "c", ".">>, abbreviations |-> <<>>, valid |-> TRUE]],
       \* the author as a citation writes it, under the same year
       [text |-> <<"l", "e", "e", ",", " ", "c", ".", " ", "(", "2", "0", "1", "9", ")", ".", " ", "V", ".">>, cites |-> <<[author |-> <<"U", "n", "k", "n", "o", "w", "n">>, year |-> <<"2", "0", "1", "9">>, type |-> "parenthetical", warnings |-> <<"Warning: Missing Author">>, list |-> 1]>>, ref |-> [author |-> <<"l", "e", "e">>, year |-> <<"2", "0", "1", "9">>, full_author |-> <<"l", "e", "e", ",", " ", "c", ".">>, abbreviations |-> <<>>, valid |-> TRUE]],
       \* three authors, the two of the second entry among them
       [text |-> <<"L", "e", "e", ",", " ", "A", ".", ",", " ", "R", "o", "y", ",", " ", "B", ".", ",", " ", "&", " ", "K", "i", "m", ",", " ", "C", ".", " ", "(", "2", "0", "1", "9", ")", ".", " ", "T", ".">>, cites |-> <<[author |-> <<"C", ".">>, year |-> <<"2", "0", "1", "9">>, type |-> "narrative", warnings |-> <<>>, list |-> 1]>>, ref |-> [author |-> <<"L", "e", "e", " ", "&", " ", "K", "i", "m">>, year |-> <<"2", "0", "1", "9">>, full_author |-> <<"L", "e", "e", ",", " ", "A", ".", ",", " ", "R", "o", "y", ",", " ", "B", ".", ",", " ", "&", " ", "K", "i", "m", ",", " ", "C", ".">>, abbreviations |-> <<>>, valid |-> TRUE]]>>

\* bibliography entries that share keys
SameKeyPalette ==
    <<\* an entry
       [text |-> <<"L", "e", "e", ",", " ", "A", ".", " ", "(", "2", "0", "1", "9", ")", ".", " ", "T", ".">>, cites |-> <<[author |-> <<"A", ".">>, year |-> <<"2", "0", "1", "9">>, type |-> "narrative", warnings |-> <<>>, list |-> 1]>>, ref |-> [author |-> <<"L", "e", "e">>, year |-> <<"2", "0", "1", "9">>, full_author |-> <<"L", "e", "e", ",", " ", "A", ".">>, abbreviations |-> <<>>, valid |-> TRUE]],
       \* the same key, another full author and text
       [text |-> <<"L", "e", "e", ",", " ", "B", ".", " ", "(", "2", "0", "1", "9", ")", ".", " ", "U", ".">>, cites |-> <<[author |-> <<"B", ".">>, year |-> <<"2", "0", "1", "9">>, type |-> "narrative", warnings |-> <<>>, list |-> 1]>>, ref |-> [author |-> <<"L", "e", "e">>, year |-> <<"2", "0", "1", "9">>, full_author |-> <<"L", "e", "e", ",", " ", "B", ".">>, abbreviations |-> <<>>, valid |-> TRUE]],
       \* another key, one letter away from the entry before
       [text |-> <<"L", "e", "a", ",", " ", "B", ".", " ", "(", "2", "0", "1", "9", ")", ".", " ", "U", ".">>, cites |-> <<[author |-> <<"B", ".">>, year |-> <<"2", "0", "1", "9">>, type |-> "narrative", warnings |-> <<>>, list |-> 1]>>, ref |-> [author |-> <<"L", "e", "a">>, year |-> <<"2", "0", "1", "9">>, full_author |-> <<"L", "e", "a", ",", " ", "B", ".">>, abbreviations |-> <<>>, valid |-> TRUE]],
       \* an author that declares an abbreviation
       [text |-> <<"W", "e", "b", " ", "H", "u", "b", " ", "O", "r", "g", " ", "[", "W", "H", "O", "]", ".", " ", "(", "2", "0", "2", "0", ")", ".", " ", "T", ".">>, cites |-> <<[author |-> <<"U", "n", "k", "n", "o", "w", "n">>, year |-> <<"2", "0", "2", "0">>, type |-> "parenthetical", warnings |-> <<"Warning: Missing Author">>, list |-> 1]>>, ref |-> [author |-> <<"W", "e", "b", " ", "H", "u", "b", " ", "O", "r", "g", " ", ".">>, year |-> <<"2", "0", "2", "0">>, full_author |-> <<"W", "e", "b", " ", "H", "u", "b", " ", "O", "r", "g", " ", "[", "W", "H", "O", "]", ".">>, abbreviations |-> <<<<"W", "H", "O">>>>, valid |-> TRUE]],
       \* the same key, another abbreviation
       [text |-> <<"W", "e", "b", " ", "H", "u", "b", " ", "O", "r", "g", " ", "[", "W", "H", "]", ".", " ", "(", "2", "0", "2", "0", ")", ".", " ", "U", ".">>, cites |-> <<[author |-> <<"U", "n", "k", "n", "o", "w", "n">>, year |-> <<"2", "0", "2", "0">>, type |-> "parenthetical", warnings |-> <<"Warning: Missing Author">>, list |-> 1]>>, ref |-> [author |-> <<"W", "e", "b", " ", "H", "u", "b", " ", "O", "r", "g", " ", ".">>, year |-> <<"2", "0", "2", "0">>, full_author |-> <<"W", "e", "b", " ", "H", "u", "b", " ", "O", "r", "g", " ", "[", "W", "H", "]", ".">>, abbreviations |-> <<<<"W", "H">>>>, valid |-> TRUE]]>>

\* bibliography entries of unequal lengths
FilterPalette ==
    <<\* an entry
       [text |-> <<"L", "e", "e", ",", " ", "A", ".", " ", "(", "2", "0", "1", "9", ")", ".", " ", "T", ".">>, cites |-> <<[author |-> <<"A", ".">>, year |-> <<"2", "0", "1", "9">>, type |-> "narrative", warnings |-> <<>>, list |-> 1]>>, ref |-> [author |-> <<"L", "e", "e">>, year |-> <<"2", "0", "1", "9">>, full_author |-> <<"L", "e", "e", ",", " ", "A", ".">>, abbreviations |-> <<>>, valid |-> TRUE]],
       \* another key, nearly twice as long
       [text |-> <<"L", "e", "o", ",", " ", "A", ".", " ", "(", "2", "0", "1", "9", ")", ".", " ", "T", "i", "t", "l", "e", " ", "o", "f", " ", "a", " ", "w", "o", "r", "k", ".">>, cites |-> <<[author |-> <<"A", ".">>, year |-> <<"2", "0", "1", "9">>, type |-> "narrative", warnings |-> <<>>, list |-> 1]>>, ref |-> [author |-> <<"L", "e", "o">>, year |-> <<"2", "0", "1", "9">>, full_author |-> <<"L", "e", "o", ",", " ", "A", ".">>, abbreviations |-> <<>>, valid |-> TRUE]],
       \* the start of the first entry, less than 0.6 of its length
       [text |-> <<"L", "e", "e", ",", " ", "A", ".">>, cites |-> <<>>, ref |-> NoRef],
       \* one letter away from the first entry
       [text |-> <<"L", "e", "a", ",", " ", "A", ".", " ", "(", "2", "0", "1", "9", ")", ".", " ", "T", ".">>, cites |-> <<[author |-> <<"A", ".">>, year |-> <<"2", "0", "1", "9">>, type |-> "narrative", warnings |-> <<>>, list |-> 1]>>, ref |-> [author |-> <<"L", "e", "a">>, year |-> <<"2", "0", "1", "9">>, full_author |-> <<"L", "e", "a", ",", " ", "A", ".">>, abbreviations |-> <<>>, valid |-> TRUE]],
       \* the first entry without its title, 0.83 of its length
       [text |-> <<"L", "e", "e", ",", " ", "A", ".", " ", "(", "2", "0", "1", "9", ")", ".">>, cites |-> <<[author |-> <<"A", ".">>, year |-> <<"2", "0", "1", "9">>, type |-> "narrative", warnings |-> <<>>, list |-> 1]>>, ref |-> [author |-> <<"L", "e", "e">>, year |-> <<"2", "0", "1", "9">>, full_author |-> <<"L", "e", "e", ",", " ", "A", ".">>, abbreviations |-> <<>>, valid |-> TRUE]],
       \* 0.72 of the length of the first entry, a ratio just under 0.85
       [text |-> <<"L", "e", "e", ",", " ", "A", ".", " ", "(", "2", "0", "1", "9">>, cites |-> <<>>, ref |-> NoRef]>>

\* ------------------------------------------- the name-year validation machine
\* the two marker paragraphs
OpenPara == ScanPalette[1]

ClosePara == ScanPalette[2]

\* the lists of at most max distinct indices out of 1..n
Picks(n, max) ==
    UNION {{p \in [1..k -> 1..n] : \A i, j \in 1..k : p[i] = p[j] => i = j}
           : k \in 0..max}

\* the lists of at most max indices out of 1..n
Lists(n, max) == UNION {[1..k -> 1..n] : k \in 0..max}

\* the paragraphs of the palette at the indices p
Pick(palette, p) == [k \in 1..Len(p) |-> palette[p[k]]]

\* a text, the opening marker, a bibliography, the closing marker
ApaDocuments ==
    {Pick(CitePalette, c) \o <<OpenPara>> \o Pick(RefPalette, r) \o <<ClosePara>> :
        c \in Picks(Len(CitePalette), MaxCites), r \in Picks(Len(RefPalette), MaxRefs)}
    \cup {ExampleDoc}

\* any paragraphs, markers included
ScanDocuments == {Pick(ScanPalette, p) : p \in Lists(Len(ScanPalette), MaxScan)}

\* the numbered bibliography of the entries: "k. text" in REF-N paragraphs
DupBody(entries) ==
    [k \in 1..Len(entries) |->
        [Para("REF-N", <<BibNo(<<Digits[k + 1], ".">>),
                         Plain(<<" ">> \o entries[k].text)>>) EXCEPT !.eid = k]]

\* the name-year bibliography of the entries, between the markers
DupParagraphs(entries) == <<OpenPara>> \o entries \o <<ClosePara>>

\* the lists of entries duplicates are looked for in
DupEntries == {Pick(DupPalette, p) : p \in Lists(Len(DupPalette), MaxEntries)}

\* citations in the forms auto_detect_style tells apart
StyleCitePalette ==
    <<\* with a comma, as in APA
       [text |-> <<"(", "L", "e", "e", ",", " ", "2", "0", "1", "9", ")">>, cites |-> <<[author |-> <<"L", "e", "e">>, year |-> <<"2", "0", "1", "9">>, type |-> "parenthetical", warnings |-> <<>>, list |-> 1]>>, ref |-> NoRef],
       \* without a comma, as in Vancouver and Chicago
       [text |-> <<"(", "L", "e", "e", " ", "2", "0", "1", "9", ")">>, cites |-> <<[author |-> <<"L", "e", "e">>, year |-> <<"2", "0", "1", "9">>, type |-> "parenthetical", warnings |-> <<"Format Error: Missing comma between author and year (APA requires comma)">>, list |-> 1]>>, ref |-> NoRef],
       \* an author no entry names
       [text |-> <<"(", "K", "i", "m", " ", "2", "0", "2", "0", ")">>, cites |-> <<[author |-> <<"K", "i", "m">>, year |-> <<"2", "0", "2", "0">>, type |-> "parenthetical", warnings |-> <<"Format Error: Missing comma between author and year (APA requires comma)">>, list |-> 1]>>, ref |-> NoRef],
       \* two years in one citation: the two citations hold one list of warnings
       [text |-> <<"(", "L", "e", "e", ",", " ", "2", "0", "1", "9", ",", " ", "2", "0", "2", "0", ")">>, cites |-> <<[author |-> <<"L", "e", "e">>, year |-> <<"2", "0", "1", "9">>, type |-> "parenthetical", warnings |-> <<>>, list |-> 1], [author |-> <<"L", "e", "e">>, year |-> <<"2", "0", "2", "0">>, type |-> "parenthetical", warnings |-> <<>>, list |-> 1]>>, ref |-> NoRef]>>

\* bibliography entries in the form of each style
StyleRefPalette ==
    <<\* an APA entry
       [text |-> <<"L", "e", "e", ",", " ", "A", ".", " ", "(", "2", "0", "1", "9", ")", ".", " ", "T", ".">>, cites |-> <<[author |-> <<"A", ".">>, year |-> <<"2", "0", "1", "9">>, type |-> "narrative", warnings |-> <<>>, list |-> 1]>>, ref |-> [author |-> <<"L", "e", "e">>, year |-> <<"2", "0", "1", "9">>, full_author |-> <<"L", "e", "e", ",", " ", "A", ".">>, abbreviations |-> <<>>, valid |-> TRUE]],
       \* a Vancouver entry
       [text |-> <<"L", "e", "e", ".", " ", "T", ".", " ", "2", "0", "1", "9", ".">>, cites |-> <<>>, ref |-> NoRef],
       \* a Vancouver entry of three authors
       [text |-> <<"L", "e", "e", " ", "A", ",", " ", "R", "o", "y", " ", "B", ",", " ", "K", "i", "m", " ", "C", ".", " ", "T", ".", " ", "2", "0", "1", "9", ".">>, cites |-> <<>>, ref |-> NoRef],
       \* a Chicago entry
       [text |-> <<"L", "e", "e", ",", " ", "A", "n", "n", ".", " ", "2", "0", "1", "9", ".", " ", "T", ".">>, cites |-> <<>>, ref |-> NoRef]>>

\* a text and a bibliography out of the palettes of the styles
StyleDocuments ==
    {Pick(StyleCitePalette, c) \o <<OpenPara>> \o Pick(StyleRefPalette, r) \o <<ClosePara>> :
        c \in Picks(Len(StyleCitePalette), MaxCites),
        r \in Picks(Len(StyleRefPalette), MaxRefs)}

\* a document to validate, in the style asked for
ApaRequest(d, style) ==
    /\ KeyIdle
    /\ EtAlIdle
    /\ paragraphs = d
    /\ citation_style = style
    /\ cites = NoCitations
    /\ refs = NoReferences
    /\ matches = NoMatches
    /\ result = <<>>
    /\ apa_op = "input"

\* a document to validate, without a style
ApaInput(d) == ApaRequest(d, NoStyle)

InitApa ==
    /\ DocIdle
    /\ NumIdle
    /\ \/ \E d \in ApaDocuments : ApaInput(d)
       \/ \E d \in StyleDocuments, style \in StyleInputs : ApaRequest(d, style)
    /\ duplicates = <<>>
    /\ dup_op = "idle"

InitScan ==
    /\ DocIdle
    /\ NumIdle
    /\ \E d \in ScanDocuments, style \in StyleInputs : ApaRequest(d, style)
    /\ duplicates = <<>>
    /\ dup_op = "idle"

InitDup ==
    /\ \E e \in DupEntries :
          /\ doc = [body |-> DupBody(e), styles |-> StylesOf(DupBody(e))]
          /\ ApaInput(DupParagraphs(e))
    /\ doc0 = doc
    /\ mid = doc.body
    /\ op = "none"
    /\ before_stats = NoStats
    /\ after_stats = NoStats
    /\ mapping = <<>>
    /\ status_msg = NoStatus
    /\ renumbered = FALSE
    /\ copy_run = NoCopy
    /\ NumIdle
    /\ duplicates = <<>>
    /\ dup_op = "input"

\* validate_document(file_path, parser)
ValidateDocument ==
    /\ apa_op = "input"
    /\ \E c \in {find_citations_in_text(paragraphs)},
          r \in {find_references_in_bibliography(paragraphs)} :
          \E m \in {get_citation_matches(c.citations, r.references, r.abbreviation_map)} :
             /\ cites' = c
             /\ refs' = r
             /\ matches' = m
             /\ result' = Validate(c, r, m)
    /\ apa_op' = "validated"
    /\ UNCHANGED <<paragraphs, citation_style, duplicates, dup_op, docVars, numVars, keyVars,
                   etAlVars>>

\* validate_document_multi_style(file_path, citation_style)
ValidateDocumentMultiStyle ==
    /\ apa_op = "input"
    /\ \E style \in {UsedStyle(DetectedStyle(paragraphs, citation_style))} :
          \E p \in {ParseParagraphs(get_parser(style), paragraphs)} :
             \E c \in {find_citations_in_text(p)},
                r \in {find_references_in_bibliography(p)} :
                \E m \in {get_citation_matches(c.citations, r.references,
                                               r.abbreviation_map)} :
                   /\ paragraphs' = p
                   /\ cites' = c
                   /\ refs' = r
                   /\ matches' = m
                   /\ result' = WithStyle(Validate(c, r, m), style)
    /\ apa_op' = "validated"
    /\ UNCHANGED <<citation_style, duplicates, dup_op, docVars, numVars, keyVars,
                   etAlVars>>

\* ReferenceProcessor(doc).find_duplicates(ref_objects)
FindDuplicates ==
    /\ dup_op = "input"
    /\ duplicates' = find_duplicates(doc.body,
                                     get_references_in_bibliography(doc.body).ref_objects)
    /\ dup_op' = "found"
    /\ UNCHANGED <<paragraphs, cites, refs, matches, result, apa_op, citation_style,
                   docVars, numVars,
                   keyVars, etAlVars>>

NextApa == ValidateDocument \/ ValidateDocumentMultiStyle

SpecApa == InitApa /\ [][NextApa]_vars

NextScan == ValidateDocument \/ ValidateDocumentMultiStyle

SpecScan == InitScan /\ [][NextScan]_vars

NextDup == FindDuplicates \/ ValidateDocument \/ ValidateDocumentMultiStyle

SpecDup == InitDup /\ [][NextDup]_vars

\* ------------------------------------------------- capitals in a citation
\* a text of citations, the opening marker, references, the closing marker
CaseDocuments ==
    {Pick(CaseCitePalette, c) \o <<OpenPara>> \o Pick(CaseRefPalette, r) \o <<ClosePara>> :
        c \in Picks(Len(CaseCitePalette), MaxCites),
        r \in Picks(Len(CaseRefPalette), MaxRefs)}

InitCase ==
    /\ DocIdle
    /\ NumIdle
    /\ \E d \in CaseDocuments : ApaInput(d)
    /\ duplicates = <<>>
    /\ dup_op = "idle"

NextCase == ValidateDocument \/ ValidateDocumentMultiStyle

SpecCase == InitCase /\ [][NextCase]_vars

\* ------------------------------------------------ entries that share a key
\* a bibliography of at most MaxEntries entries, between the markers
SameKeyDocuments ==
    {<<OpenPara>> \o Pick(SameKeyPalette, p) \o <<ClosePara>> :
        p \in Lists(Len(SameKeyPalette), MaxEntries)}

InitSameKey ==
    /\ DocIdle
    /\ NumIdle
    /\ \E d \in SameKeyDocuments, style \in StyleInputs : ApaRequest(d, style)
    /\ duplicates = <<>>
    /\ dup_op = "idle"

NextSameKey == ValidateDocument \/ ValidateDocumentMultiStyle

SpecSameKey == InitSameKey /\ [][NextSameKey]_vars

\* ------------------------------------------------ entries of unequal lengths
\* the lists of entries the length check of duplicate detection is tried on
FilterEntries == {Pick(FilterPalette, p) : p \in Lists(Len(FilterPalette), MaxEntries)}

InitFilter ==
    /\ \E e \in FilterEntries :
          /\ doc = [body |-> DupBody(e), styles |-> StylesOf(DupBody(e))]
          /\ ApaInput(DupParagraphs(e))
    /\ doc0 = doc
    /\ mid = doc.body
    /\ op = "none"
    /\ before_stats = NoStats
    /\ after_stats = NoStats
    /\ mapping = <<>>
    /\ status_msg = NoStatus
    /\ renumbered = FALSE
    /\ copy_run = NoCopy
    /\ NumIdle
    /\ duplicates = <<>>
    /\ dup_op = "input"

NextFilter == FindDuplicates \/ ValidateDocument \/ ValidateDocumentMultiStyle

SpecFilter == InitFilter /\ [][NextFilter]_vars

\* ------------------------------------------------------ the key of an author
\* the characters of the author texts: letters, whitespace, a character the
\* key drops, the ampersand and the separator of the key
AuthorChars == {"A", "b", " ", "\t", ".", "&", "|"}

AuthorTexts == UNION {[1..n -> AuthorChars] : n \in 0..MaxAuthor}

Years == {<<"2", "0", "1", "9">>, <<"n", ".", "d", ".">>}

\* no document is being validated
NoDocument ==
    /\ paragraphs = <<>>
    /\ cites = NoCitations
    /\ refs = NoReferences
    /\ matches = NoMatches
    /\ result = <<>>
    /\ apa_op = "idle"
    /\ citation_style = NoStyle
    /\ duplicates = <<>>
    /\ dup_op = "idle"

InitKey ==
    /\ DocIdle
    /\ NumIdle
    /\ NoDocument
    /\ EtAlIdle
    /\ author_part \in AuthorTexts
    /\ year \in Years
    /\ norm_key = <<>>
    /\ renorm_key = <<>>
    /\ key_op = "input"

\* normalize_citation_key(author_part, year)
NormalizeKey ==
    /\ key_op = "input"
    /\ norm_key' = normalize_citation_key(author_part, year)
    /\ key_op' = "normalized"
    /\ UNCHANGED <<author_part, year, renorm_key, paragraphs, cites, refs, matches,
                   result, apa_op, citation_style, duplicates, dup_op, docVars,
                   numVars, etAlVars>>

\* normalize_citation_key(key.split('|')[0], year)
NormalizeAgain ==
    /\ key_op = "normalized"
    /\ renorm_key' = normalize_citation_key(KeyAuthor(norm_key), year)
    /\ key_op' = "renormalized"
    /\ UNCHANGED <<author_part, year, norm_key, paragraphs, cites, refs, matches,
                   result, apa_op, citation_style, duplicates, dup_op, docVars,
                   numVars, etAlVars>>

NextKey == NormalizeKey \/ NormalizeAgain

SpecKey == InitKey /\ [][NextKey]_vars

\* ----------------------------------------------------- the et al. check alone
\* the surnames of the authors of a reference, in their order
Surnames ==
    <<<<"S", "m", "i", "t", "h">>, <<"J", "o", "n", "e", "s">>,
      <<"B", "r", "o", "w", "n">>, <<"K", "i", "m">>>>

\* the forms initials are written in: J., J, J. K., J.K., J.-P.
InitialForms ==
    <<<<"J", ".">>, <<"J">>, <<"J", ".", " ", "K", ".">>, <<"J", ".", "K", ".">>,
      <<"J", ".", "-", "P", ".">>>>

\* the authors of a reference: the form of the initials of each
AuthorLists == UNION {[1..n -> 1..Len(InitialForms)] : n \in 1..MaxAuthors}

\* "Surname, I." of the k-th author
AuthorName(a, k) == Surnames[k] \o <<",", " ">> \o InitialForms[a[k]]

\* the names from the k-th on up to the one before the last, each with ", "
RECURSIVE LeadingNames(_, _)
LeadingNames(a, k) ==
    IF k >= Len(a) THEN <<>>
    ELSE AuthorName(a, k) \o <<",", " ">> \o LeadingNames(a, k + 1)

\* the author list of a reference entry: "A, I., B, I., & C, I."
FullAuthor(a) ==
    IF Len(a) = 1 THEN AuthorName(a, 1)
    ELSE LeadingNames(a, 1) \o <<"&", " ">> \o AuthorName(a, Len(a))

\* the reference the parser reads from the entry of the authors a
RefData(a) ==
    [author      |-> IF Len(a) = 1 THEN Surnames[1]
                     ELSE Surnames[1] \o <<" ", "&", " ">> \o Surnames[Len(a)],
     full_author |-> FullAuthor(a)]

\* the citations the check is tried with: Smith et al., Smith & Jones
EtAlCitations ==
    {[author |-> Surnames[1] \o <<" ", "e", "t", " ", "a", "l", ".">>],
     [author |-> Surnames[1] \o <<" ", "&", " ">> \o Surnames[2]]}

InitEtAl ==
    /\ DocIdle
    /\ NumIdle
    /\ NoDocument
    /\ KeyIdle
    /\ et_al_cite \in EtAlCitations
    /\ \E a \in AuthorLists : et_al_ref = RefData(a)
    /\ ref_author_count = 0
    /\ et_al_result = <<>>
    /\ et_al_op = "input"

\* check_et_al_misuse(cite_data, ref_data)
CheckEtAlMisuse ==
    /\ et_al_op = "input"
    /\ ref_author_count' = AuthorCount(et_al_ref.full_author)
    /\ et_al_result' = check_et_al_misuse(et_al_cite, et_al_ref)
    /\ et_al_op' = "checked"
    /\ UNCHANGED <<et_al_cite, et_al_ref, paragraphs, cites, refs, matches, result,
                   apa_op, citation_style, duplicates, dup_op, docVars, numVars,
                   keyVars>>

NextEtAl == CheckEtAlMisuse

SpecEtAl == InitEtAl /\ [][NextEtAl]_vars

\* ===================================================== claims: pure functions
StrictlyIncreasing(s) == \A i \in 1..(Len(s) - 1) : s[i] < s[i + 1]

\* the index of the first occurrence of v in s
FirstIndex(s, v) == CHOOSE i \in 1..Len(s) : s[i] = v /\ \A j \in 1..(i - 1) : s[j] # v

\* the number of distinct values of s before index k
DistinctBefore(s, k) == Cardinality({s[j] : j \in 1..(k - 1)})

\* C8: get_numbers(format_numbers(ids)) = sorted(ids) for every strictly
\* increasing list ids of non-negative integers, and the text never stands
\* for a number that is not in ids (no range over non-contiguous numbers).
C8_RoundTrip ==
    step = "parsed" =>
        /\ StrictlyIncreasing(nums) => parsed = nums
        /\ Range(parsed) \subseteq Range(nums)

\* a strictly increasing list with a run of three, then a gap and a singleton
C8_Witness ==
    /\ step = "parsed"
    /\ Len(nums) = 4
    /\ StrictlyIncreasing(nums)
    /\ nums[3] = nums[1] + 2
    /\ nums[4] > nums[3] + 1
    /\ parsed = nums

\* The rendering C9 describes, for the set S of the numbers: the maximal runs
\* of consecutive integers in ascending order, each rendered by its length.
RunStarts(S) == {a \in S : (a - 1) \notin S}
RunEnd(S, a) == CHOOSE b \in S : b >= a /\ (a..b) \subseteq S /\ (b + 1) \notin S
RenderRun(a, b) ==
    IF b - a >= 2 THEN str(a) \o <<"-">> \o str(b)
    ELSE IF b - a = 1 THEN str(a) \o <<",">> \o str(b)
    ELSE str(a)
Rendering(S) ==
    LET starts == sorted(RunStarts(S))
    IN join(<<",", " ">>,
            [k \in 1..Len(starts) |-> RenderRun(starts[k], RunEnd(S, starts[k]))])

\* C9: format_numbers sorts and de-duplicates, splits into maximal runs of
\* consecutive integers, renders a run of >= 3 as "a-b", of 2 as "a,b", a
\* singleton as itself, and joins with ", "; [1,2,3,5] gives "1-3, 5" and the
\* empty list gives "".
C9_Format ==
    step = "formatted" =>
        /\ text = Rendering(Range(nums))
        /\ nums = <<1, 2, 3, 5>> => text = <<"1", "-", "3", ",", " ", "5">>
        /\ nums = <<>> => text = <<>>

\* an unsorted list with a duplicate, a run of three and a run of two
C9_Witness ==
    /\ step = "formatted"
    /\ nums = <<3, 1, 2, 2>> \/ nums = <<6, 2, 5, 2>> \/ nums = <<10, 9, 8, 2>>
    /\ text \in {<<"1", "-", "3">>, <<"2", ",", " ", "5", ",", "6">>,
                 <<"2", ",", " ", "8", "-", "1", "0">>}

\* the issues C10 describes, from index k of all_cited on
RECURSIVE ExpectedIssues(_, _)
ExpectedIssues(s, k) ==
    IF k > Len(s) THEN <<>>
    ELSE (IF FirstIndex(s, s[k]) = k /\ s[k] # DistinctBefore(s, k) + 1
          THEN <<[position |-> DistinctBefore(s, k) + 1,
                  current  |-> s[k],
                  expected |-> DistinctBefore(s, k) + 1]>>
          ELSE <<>>)
         \o ExpectedIssues(s, k + 1)

\* C10: a sequence issue {position, current, expected} is recorded for exactly
\* the first occurrences of a distinct id whose value differs from (number of
\* distinct ids seen before) + 1, with position = expected = that count + 1;
\* repeated ids produce none; there is no issue iff the distinct ids first
\* appear as 1, 2, ..., N in that order.
C10_SequenceIssues ==
    step = "walked" =>
        /\ issues = ExpectedIssues(nums, 1)
        /\ Len(issues) <= Cardinality(Range(nums))
        /\ issues = <<>> <=>
             \A v \in Range(nums) :
                 v = DistinctBefore(nums, FirstIndex(nums, v)) + 1

\* a repeated id, a first occurrence in sequence and one out of sequence
C10_Witness ==
    /\ step = "walked"
    /\ nums = <<1, 1, 3, 2>>
    /\ issues = <<[position |-> 2, current |-> 3, expected |-> 2],
                  [position |-> 3, current |-> 2, expected |-> 3]>>

\* ================================================= claims: the document path
\* the statistics of the document as it was loaded
Stats0 == get_validation_stats(doc0.body)

\* all_cited of the document as it was loaded
AllCited0 == get_citations_in_text(doc0.body).all_cited

\* the eids of a body, in body order
Eids(body) == [k \in 1..Len(body) |-> body[k].eid]

\* C1: process_document runs the renumber transform, and returns a non-empty
\* mapping, only when the statistics before have unused_references and
\* missing_references both empty; when either is non-empty, or the document is
\* perfect, it returns the empty mapping together with a status string. The
\* same of process_document of src/app_server.py, which then returns the
\* document as it was.
C1_Gate ==
    /\ op = "process" =>
          /\ (renumbered \/ DOMAIN mapping # {}) =>
                /\ Stats0.unused_references = <<>>
                /\ Stats0.missing_references = <<>>
          /\ (\/ Stats0.unused_references # <<>>
              \/ Stats0.missing_references # <<>>
              \/ Stats0.is_perfect) =>
                /\ ~renumbered
                /\ DOMAIN mapping = {}
                /\ status_msg.text # ""
    /\ op = "app_process" =>
          /\ (copy_run.doc # doc0 \/ DOMAIN copy_run.mapping # {}) =>
                /\ Stats0.unused_references = <<>>
                /\ Stats0.missing_references = <<>>
          /\ (\/ Stats0.unused_references # <<>>
              \/ Stats0.missing_references # <<>>
              \/ Stats0.is_perfect) =>
                /\ copy_run.doc = doc0
                /\ DOMAIN copy_run.mapping = {}
                /\ copy_run.status_msg.text # ""

\* the gate passed on an imperfect document and a mapping came back
C1_Witness ==
    /\ op = "process"
    /\ renumbered
    /\ DOMAIN mapping # {}
    /\ Stats0.sequence_issues # <<>>

\* C2: if some bibliography id is never cited, the renumber of
\* process_document returns {} and leaves every paragraph's text and the
\* order of all paragraphs unchanged.
C2_UnusedLeavesDocument ==
    (op = "process" /\ Stats0.unused_references # <<>>) =>
        /\ DOMAIN mapping = {}
        /\ doc.body = doc0.body

\* aborted on an unused reference, where the transform would have changed
\* the document
C2_Witness ==
    /\ op = "process"
    /\ Stats0.unused_references # <<>>
    /\ AllCited0 # <<>>
    /\ renumber(doc0).doc.body # doc0.body
    /\ doc.body = doc0.body

\* C3: after a renumber that passed the gate, get_validation_stats on the
\* rewritten document reports empty sequence_issues, missing_references and
\* unused_references.
C3_CleanAfterRenumber ==
    (op = "process" /\ renumbered) =>
        /\ after_stats.sequence_issues = <<>>
        /\ after_stats.missing_references = <<>>
        /\ after_stats.unused_references = <<>>

\* C4: the mapping built by renumber is a bijection from the distinct cited
\* numbers onto 1..N that sends the k-th distinct number in order of first
\* appearance to k; a repeated number takes no new slot.
C4_MappingBijection ==
    renumbered =>
        LET N == Cardinality(Range(AllCited0))
        IN /\ DOMAIN mapping = Range(AllCited0)
           /\ {mapping[n] : n \in DOMAIN mapping} = 1..N
           /\ \A m, n \in DOMAIN mapping : mapping[m] = mapping[n] => m = n
           /\ \A n \in DOMAIN mapping :
                 mapping[n] = DistinctBefore(AllCited0, FirstIndex(AllCited0, n)) + 1

\* a number repeated before a new number first appears, the new number
\* taking the next slot, on a mapping that is not the identity
C4_Witness ==
    /\ renumbered
    /\ \E i, j, k \in 1..Len(AllCited0) :
          /\ i < j /\ j < k
          /\ AllCited0[i] = AllCited0[j]
          /\ FirstIndex(AllCited0, AllCited0[k]) = k
          /\ mapping[AllCited0[k]] = 2
    /\ \E n \in DOMAIN mapping : mapping[n] # n

\* the body index of the element with the given eid
IndexOfEid(body, eid) == CHOOSE j \in 1..Len(body) : body[j].eid = eid

\* C5: after the renumber transform the id read back from every cited
\* bibliography entry (styled run first, else leading integer) equals
\* mapping[old id].
C5_EntryIdsFollowMapping ==
    (op = "process" /\ renumbered) =>
        \A k \in 1..Len(doc0.body) :
            LET old == BibEntry(doc0.body, k)
                new == BibEntry(doc.body, IndexOfEid(doc.body, doc0.body[k].eid))
            IN (old.found /\ old.id \in DOMAIN mapping) =>
                  (new.found /\ new.id = mapping[old.id])

\* The entries as the reorder step reads them (from the body between the two
\* steps): the body indices of the entries, and the new id of a cited one.
MidEntries == {k \in 1..Len(mid) : BibEntry(mid, k).found}
MidCited(k) == BibEntry(mid, k).id \in DOMAIN mapping
MidNewId(k) == mapping[BibEntry(mid, k).id]

\* C6: after the bibliography reorder all bibliography entries form one
\* contiguous block that begins where the first bibliography paragraph stood:
\* the cited entries in ascending new id, then the uncited entries in their
\* original relative order.
C6_ReorderBlock ==
    (renumbered /\ MidEntries # {}) =>
        LET anchor == CHOOSE a \in MidEntries : \A b \in MidEntries : a <= b
            n      == Cardinality(MidEntries)
            \* the index in mid of the element now at body index j
            was(j) == IndexOfEid(mid, doc.body[j].eid)
        IN /\ Len(doc.body) = Len(mid)
           /\ {was(j) : j \in anchor..(anchor + n - 1)} = MidEntries
           /\ \A i, j \in anchor..(anchor + n - 1) :
                 i < j =>
                    /\ MidCited(was(j)) => MidCited(was(i))
                    /\ (MidCited(was(i)) /\ MidCited(was(j))) =>
                          MidNewId(was(i)) <= MidNewId(was(j))
                    /\ (~MidCited(was(i)) /\ ~MidCited(was(j))) => was(i) < was(j)

\* a gated renumber that moved an entry over another one, with an element that
\* is no entry standing between two entries beforehand
C6_Witness ==
    /\ op = "process"
    /\ renumbered
    /\ Eids(doc.body) # Eids(doc0.body)
    /\ \E i, j, k \in 1..Len(mid) :
          /\ i < j /\ j < k
          /\ i \in MidEntries /\ j \notin MidEntries /\ k \in MidEntries
          /\ MidNewId(k) < MidNewId(i)

\* sorted(set(mapped numbers)) of one occurrence
MappedOccurrence(occ) == sorted(Range(MapNums(mapping, occ)))

\* the occurrences that hold a number
NonEmpty(occs) == SelectSeq(occs, LAMBDA o : o # <<>>)

\* C7: renumber rewrites each citation occurrence as discovery saw it: the
\* numbers of every group of contiguous citation runs and of every ^numbers^
\* match are, after the transform, the sorted de-duplicated mapping images of
\* its numbers before.
C7_OccurrencesRewritten ==
    (op = "process" /\ renumbered) =>
        LET before == NonEmpty(Occurrences(iter_document_paragraphs(doc0.body)))
            after  == NonEmpty(Occurrences(iter_document_paragraphs(doc.body)))
        IN after = [k \in 1..Len(before) |-> MappedOccurrence(before[k])]

\* C11: for a document with no bibliography paragraphs, renumbering, by
\* process_document or by ReferenceProcessor.renumber, returns (no exception)
\* with the empty mapping, whether or not the text holds citations.
C11_NoBibliographyEmptyMapping ==
    (/\ op \in {"process", "renumber"}
     /\ \A k \in 1..Len(doc0.body) : doc0.body[k].style # "REF-N") =>
        DOMAIN mapping = {}

\* ================================================ claims: name-year validation
\* the number of entries of a list that satisfy P
Count(entries, P(_)) == Cardinality({i \in 1..Len(entries) : P(entries[i])})

\* the reference the matcher resolved a citation key to, NoKey for none
Target(cite_key) ==
    IF \E i \in 1..Len(matches.matched_pairs) : matches.matched_pairs[i].key = cite_key
    THEN matches.matched_pairs[
            CHOOSE i \in 1..Len(matches.matched_pairs) :
                matches.matched_pairs[i].key = cite_key].ref
    ELSE NoKey

\* the key a citation is looked up under in the abbreviation table
AbbrKey(c) == strip(c.author) \o <<"|">> \o c.year

\* C12: a citation whose normalized key is a key of the reference table is
\* resolved to that reference, whatever the abbreviation table and the smart
\* match return; otherwise it is resolved through the abbreviation table when
\* its author and year are listed there; the smart match decides only when
\* both fail.
C12_CascadePrecedence ==
    apa_op = "validated" =>
        \A k \in 1..Len(cites.citations) :
            LET c == cites.citations[k]
            IN IF c.key \in Keys(refs.references) THEN Target(c.key) = c.key
               ELSE IF AbbrKey(c) \in DOMAIN refs.abbreviation_map
               THEN Target(c.key) = refs.abbreviation_map[AbbrKey(c)]
               ELSE Target(c.key) = check_smart_match(c, refs.references)

\* a citation resolved by its key although the smart match names another
\* reference
C12_Witness ==
    /\ apa_op = "validated"
    /\ \E k \in 1..Len(cites.citations) :
          LET c == cites.citations[k]
          IN /\ c.key \in Keys(refs.references)
             /\ Target(c.key) = c.key
             /\ check_smart_match(c, refs.references) \notin {NoKey, c.key}

\* C13: the match result is a many-to-one function: a citation key has at most
\* one target, every target is a key of the reference table, also when it comes
\* from the abbreviation table, matched_citations is the domain and
\* matched_references the range of matched_pairs, and the values of the
\* abbreviation table are keys of the reference table.
C13_ManyToOne ==
    apa_op = "validated" =>
        LET pairs == matches.matched_pairs
        IN /\ \A i, j \in 1..Len(pairs) : pairs[i].key = pairs[j].key => i = j
           /\ \A i \in 1..Len(pairs) :
                 /\ pairs[i].ref \in Keys(refs.references)
                 /\ pairs[i].key \in Keys(cites.citations)
           /\ matches.matched_citations = {pairs[i].key : i \in 1..Len(pairs)}
           /\ matches.matched_references = {pairs[i].ref : i \in 1..Len(pairs)}
           /\ \A a \in DOMAIN refs.abbreviation_map :
                 refs.abbreviation_map[a] \in Keys(refs.references)

\* two citation keys that share one target, one of them resolved through the
\* abbreviation table
C13_Witness ==
    /\ apa_op = "validated"
    /\ \E i, j \in 1..Len(matches.matched_pairs) :
          /\ i # j
          /\ matches.matched_pairs[i].ref = matches.matched_pairs[j].ref
          /\ matches.matched_pairs[i].key \notin Keys(refs.references)
          /\ AbbrKey(cites.citations[IndexOfKey(cites.citations,
                                                matches.matched_pairs[i].key)])
                \in DOMAIN refs.abbreviation_map
    /\ Cardinality(matches.matched_citations) = 2
    /\ Cardinality(matches.matched_references) = 1

\* whether a reference has the normalized author of the citation c
SameAuthor(c) ==
    \E k \in 1..Len(refs.references) :
        NormalizeAuthor(refs.references[k].author) = NormalizeAuthor(strip(c.author))

\* whether the author of a reference is more than 80% similar to that of c
NearAuthor(c) ==
    \E k \in 1..Len(refs.references) :
        LET r == Ratio(normalize_text_for_comparison(strip(c.author)),
                       normalize_text_for_comparison(refs.references[k].author))
        IN 5 * r[1] > 4 * r[2]

\* the numbers of year mismatches, spelling mismatches and missing references
\* reported for the citation c
Outcome(c) ==
    <<Count(result.year_mismatches, LAMBDA e : e.citation = c.display),
      Count(result.spelling_mismatches, LAMBDA e : e.citation = c.display),
      Count(result.missing_references, LAMBDA e : e.reference = c.display)>>

\* C14: a citation the matcher left unresolved yields exactly one of year
\* mismatch, spelling mismatch and missing reference: a year mismatch when a
\* reference has its author, else a spelling mismatch when a reference author
\* is near, else a missing reference; a resolved citation yields none, and
\* total_citations = valid + year mismatches + spelling mismatches + missing.
C14_OneOutcome ==
    apa_op = "validated" =>
        /\ \A k \in 1..Len(cites.citations) :
              LET c == cites.citations[k]
              IN Outcome(c) =
                    IF c.key \in matches.matched_citations THEN <<0, 0, 0>>
                    ELSE IF SameAuthor(c) THEN <<1, 0, 0>>
                    ELSE IF NearAuthor(c) THEN <<0, 1, 0>>
                    ELSE <<0, 0, 1>>
        /\ result.total_citations = Len(cites.citations)
        /\ result.total_citations =
              result.valid_count + Len(result.year_mismatches)
                  + Len(result.spelling_mismatches) + Len(result.missing_references)

\* a year mismatch, whose citation is near a reference author as well, and a
\* spelling mismatch in one document
C14_Witness ==
    /\ apa_op = "validated"
    /\ Len(result.year_mismatches) = 1
    /\ Len(result.spelling_mismatches) = 1
    /\ \E k \in 1..Len(cites.citations) :
          /\ SameAuthor(cites.citations[k])
          /\ NearAuthor(cites.citations[k])
          /\ cites.citations[k].key \notin matches.matched_citations

\* the references the reported year and spelling mismatches name
MismatchTargets ==
    {result.year_mismatches[i].ref_key : i \in 1..Len(result.year_mismatches)}
    \cup {result.spelling_mismatches[i].ref_key :
            i \in 1..Len(result.spelling_mismatches)}

\* the number of times the reference r is reported unused
Unused(r) ==
    Count(result.unused_references,
          LAMBDA e : e.reference = r.display
                     /\ e.line = refs.reference_details[r.key].line)

\* C15: a reference is reported unused, once, iff it is not in
\* matched_references and no reported year or spelling mismatch names it, so
\* that none is both unused and a mismatch target and every reference is
\* matched, a mismatch target or unused; citations Smith 2019 and Jones 2020
\* against references Smith 2019 and Brown 2020 give one valid citation, one
\* missing reference and Brown unused.
C15_Unused ==
    apa_op = "validated" =>
        /\ \A k \in 1..Len(refs.references) :
              LET r == refs.references[k]
              IN Unused(r) = IF r.key \notin matches.matched_references
                                /\ r.key \notin MismatchTargets
                             THEN 1 ELSE 0
        /\ Len(result.unused_references)
              = Cardinality(Keys(refs.references)
                            \ (matches.matched_references \cup MismatchTargets))
        /\ paragraphs = ExampleDoc =>
              /\ result.valid_citations = <<ExampleDoc[1].text>>
              /\ Len(result.missing_references) = 1
              /\ result.missing_references[1].reference = ExampleDoc[2].text
              /\ Len(result.unused_references) = 1
              /\ result.unused_references[1].reference
                    = <<"B", "r", "o", "w", "n", " ", "(", "2", "0", "2", "0", ")">>
              /\ result.year_mismatches = <<>>
              /\ result.spelling_mismatches = <<>>

\* a document with a reference that only a mismatch names and a reference
\* reported unused
C15_Witness ==
    /\ apa_op = "validated"
    /\ \E k \in 1..Len(refs.references) :
          /\ refs.references[k].key \in MismatchTargets
          /\ refs.references[k].key \notin matches.matched_references
          /\ Unused(refs.references[k]) = 0
    /\ Len(result.unused_references) = 1

\* whether the citation c uses et al.
UsesEtAl(c) == Contains(lower(strip(c.author)), <<"e", "t", " ", "a", "l">>)

\* the number of et al. diagnostics of a severity reported for the citation c
EtAl(c, severity) ==
    Count(result.et_al_errors,
          LAMBDA e : e.citation = c.display /\ e.severity = severity)

\* C16: for each matched pair of a citation and a reference, an et al. error
\* (severity error) is reported iff the citation uses et al. and the author
\* count of the reference is at most 2, a warning (severity warning) iff it
\* does not use et al. and the count is at least 3, and nothing otherwise: at
\* most one of the two per pair, and none for an unmatched citation.
C16_EtAl ==
    apa_op = "validated" =>
        /\ \A k \in 1..Len(cites.citations) :
              LET c == cites.citations[k]
              IN IF Target(c.key) = NoKey
                 THEN EtAl(c, "error") = 0 /\ EtAl(c, "warning") = 0
                 ELSE LET r == refs.references[IndexOfKey(refs.references,
                                                          Target(c.key))]
                          n == AuthorCount(r.full_author)
                      IN /\ EtAl(c, "error") = IF UsesEtAl(c) /\ n <= 2 THEN 1 ELSE 0
                         /\ EtAl(c, "warning") = IF ~UsesEtAl(c) /\ n >= 3 THEN 1 ELSE 0
        /\ \A i \in 1..Len(result.et_al_errors) :
              /\ result.et_al_errors[i].severity \in {"error", "warning"}
              /\ \E k \in 1..Len(cites.citations) :
                    cites.citations[k].display = result.et_al_errors[i].citation

\* an error for et al. on a work of one author and a warning for a work of
\* three authors cited by two names, in one document
C16_Witness ==
    /\ apa_op = "validated"
    /\ \E i, j \in 1..Len(result.et_al_errors) :
          /\ result.et_al_errors[i].severity = "error"
          /\ result.et_al_errors[i].author_count = 1
          /\ result.et_al_errors[j].severity = "warning"
          /\ result.et_al_errors[j].author_count = 3

\* the usage events of the reference r: the locations of the citations matched
\* to it, each with the key of its citation
UsageEventsOf(r) ==
    UNION {{<<cites.citation_locations[matches.matched_pairs[i].key][n],
              matches.matched_pairs[i].key>> :
                n \in 1..Len(cites.citation_locations[matches.matched_pairs[i].key])} :
           i \in {j \in 1..Len(matches.matched_pairs) :
                     matches.matched_pairs[j].ref = r.key}}

\* the message of the error for a first usage
FirstUseMessage ==
    "First confirmation of abbreviation should define it. Use 'Full Name [Abbr]' instead of '{text}'."

\* the number of first-use errors reported for the citation c at loc
FirstUseErrors(c, loc) ==
    Count(result.abbreviation_errors,
          LAMBDA x : /\ x.citation = c.display
                     /\ x.locations = <<loc>>
                     /\ x.message.text = FirstUseMessage)

\* C17: for a reference that owns abbreviations, if the earliest-located usage
\* event among its matched citations is not an introduction (a citation of
\* the form Full Name [ABBR]), an abbreviation error is reported for that
\* event; if it is an introduction, no first-use error is reported.
C17_FirstUseIntroduced ==
    apa_op = "validated" =>
        \A k \in 1..Len(refs.references) :
            refs.references[k].abbreviations # <<>> =>
                \A e \in UsageEventsOf(refs.references[k]) :
                    (\A f \in UsageEventsOf(refs.references[k]) : e[1] <= f[1]) =>
                        LET c == cites.citations[IndexOfKey(cites.citations, e[2])]
                        IN FirstUseErrors(c, e[1])
                              = IF Contains(c.author, <<"[">>) THEN 0 ELSE 1

\* paragraph i holds the opening marker, the closing marker
HasOpen(i) == Contains(paragraphs[i].text, RefOpen)

HasClose(i) == Contains(paragraphs[i].text, RefClose)

\* no citation is extracted from, and no location recorded for, the first
\* paragraph holding the opening marker or any later one
CitationsStopAtOpen ==
    /\ \A key \in DOMAIN cites.citation_locations :
          \A n \in 1..Len(cites.citation_locations[key]) :
             \A o \in 1..cites.citation_locations[key][n] : ~HasOpen(o)
    /\ \A k \in 1..Len(cites.citations) :
          /\ cites.citations[k].key \in DOMAIN cites.citation_locations
          /\ cites.citation_locations[cites.citations[k].key] # <<>>

\* paragraph i is non-empty and lies strictly between an opening marker
\* paragraph and the next closing marker paragraph
BetweenMarkers(i) ==
    /\ strip(paragraphs[i].text) # <<>>
    /\ ~HasOpen(i) /\ ~HasClose(i)
    /\ \E o \in 1..(i - 1) :
          /\ HasOpen(o)
          /\ \A j \in (o + 1)..(i - 1) : ~HasClose(j)
    /\ \E c \in (i + 1)..Len(paragraphs) : HasClose(c)

\* C18: citation scanning stops at the first paragraph containing the opening
\* marker (no citation extracted from, no location recorded for, that paragraph
\* or a later one), and references are extracted only from non-empty
\* paragraphs lying strictly between an opening marker paragraph and the next
\* closing marker paragraph.
C18_MarkerRegions ==
    apa_op = "validated" =>
        /\ CitationsStopAtOpen
        /\ \A key \in DOMAIN refs.reference_details :
              BetweenMarkers(refs.reference_details[key].line)

\* the two texts are a duplicate pair: both non-empty, min(len) / max(len) >= 0.6
\* and a similarity ratio above 0.85
Similar(a, b) ==
    /\ Len(a) > 0
    /\ Len(b) > 0
    /\ 10 * (IF Len(a) < Len(b) THEN Len(a) ELSE Len(b))
          >= 6 * (IF Len(a) < Len(b) THEN Len(b) ELSE Len(a))
    /\ 100 * Ratio(a, b)[1] > 85 * Ratio(a, b)[2]

\* the entries of the numbered bibliography: the k-th has the id k
NumberedEntries ==
    [k \in 1..(Len(paragraphs) - 2) |-> [id |-> k, text |-> strip(paragraphs[k + 1].text)]]

\* the entries of the name-year bibliography: the reference table
NameYearEntries ==
    [k \in 1..Len(refs.references) |->
        [id   |-> refs.references[k].key,
         text |-> refs.reference_details[refs.references[k].key].text]]

\* the records are one per duplicate pair of the entries, the later entry as
\* the duplicate of the earlier, and nothing else
OnePerPair(records, entries) ==
    /\ \A i, j \in 1..Len(entries) :
          Count(records, LAMBDA d : d.id = entries[j].id
                                    /\ d.duplicate_of = entries[i].id)
             = IF i < j /\ Similar(entries[i].text, entries[j].text) THEN 1 ELSE 0
    /\ Len(records)
          = Cardinality({p \in (1..Len(entries)) \X (1..Len(entries)) :
                            p[1] < p[2]
                            /\ Similar(entries[p[1]].text, entries[p[2]].text)})

\* C19: duplicate detection over the bibliography emits, for each unordered
\* pair of entries whose texts are both non-empty, have min(len) / max(len)
\* >= 0.6 and a similarity ratio > 0.85, exactly one record naming the
\* later-indexed entry as the duplicate of the earlier-indexed one, and no
\* record for any other pair (never an entry as a duplicate of itself, never
\* the same pair twice); for the numbered and for the name-year bibliography.
C19_Duplicates ==
    /\ dup_op = "found" => OnePerPair(duplicates, NumberedEntries)
    /\ apa_op = "validated" => OnePerPair(result.duplicates, NameYearEntries)

\* three entries, two duplicate pairs among the numbered ones, a duplicate pair
\* among the references, and a pair of non-empty entries that is no duplicate
C19_Witness ==
    /\ dup_op = "found"
    /\ apa_op = "validated"
    /\ Len(NumberedEntries) = 3
    /\ Len(duplicates) >= 2
    /\ Len(result.duplicates) >= 1
    /\ \E i, j \in 1..3 :
          /\ i < j
          /\ NumberedEntries[i].text # <<>>
          /\ NumberedEntries[j].text # <<>>
          /\ ~Similar(NumberedEntries[i].text, NumberedEntries[j].text)

\* the citations the scan reads: those of the paragraphs before the first
\* that holds the opening marker
Scanned ==
    UNION {{<<i, j>> : j \in 1..Len(paragraphs[i].cites)} :
              i \in {n \in 1..Len(paragraphs) : \A o \in 1..n : ~HasOpen(o)}}

\* the warnings the parser attached, at extraction, to the occurrences of the
\* citation of the key
ExtractionWarnings(key) ==
    UNION {Range(paragraphs[o[1]].cites[o[2]].warnings) :
              o \in {p \in Scanned :
                        normalize_citation_key(paragraphs[p[1]].cites[p[2]].author,
                                               paragraphs[p[1]].cites[p[2]].year) = key}}

\* the number of format errors reported for the citation c
FormatErrorsOf(c) ==
    Count(result.format_errors,
          LAMBDA e : /\ e.citation = c.display
                     /\ e.locations = LocationsOf(cites.citation_locations, c.key))

\* C20: every citation that carries at least one extraction-time warning
\* produces exactly one format error, whatever its resolution outcome (matched,
\* year mismatch, spelling mismatch or missing), and a citation without
\* warnings produces none.
C20_FormatErrors ==
    apa_op = "validated" =>
        /\ \A k \in 1..Len(cites.citations) :
              FormatErrorsOf(cites.citations[k])
                 = IF ExtractionWarnings(cites.citations[k].key) # {} THEN 1 ELSE 0
        /\ Len(result.format_errors)
              = Count(cites.citations, LAMBDA c : ExtractionWarnings(c.key) # {})

\* ============================================= claims: name-year functions
\* C21: normalize_citation_key applied to its own output is a fixed point:
\* the key of the author component of a key it produced, with the same year,
\* is that key, and the normalized author holds no character the key drops,
\* no leading or trailing whitespace and no two whitespace characters in a row.
C21_FixedPoint ==
    key_op = "renormalized" =>
        /\ renorm_key = norm_key
        /\ LET a == KeyAuthor(norm_key)
           IN /\ norm_key = a \o <<"|">> \o year
              /\ \A i \in 1..Len(a) : IsWord(a[i]) \/ IsSpace(a[i]) \/ a[i] = "&"
              /\ a # <<>> => ~IsSpace(a[1]) /\ ~IsSpace(a[Len(a)])
              /\ \A i \in 1..(Len(a) - 1) : ~(IsSpace(a[i]) /\ IsSpace(a[i + 1]))

\* an author text with a dropped character between whitespace and a tab, whose
\* key is neither empty nor the text itself
C21_Witness ==
    /\ key_op = "renormalized"
    /\ author_part = <<"A", " ", ".", "\t">>
    /\ norm_key = <<"A", "|">> \o year
    /\ renorm_key = norm_key

\* the citation a diagnostic names by its display
CitationOf(display) ==
    cites.citations[CHOOSE k \in 1..Len(cites.citations) :
                        cites.citations[k].display = display]

\* C22: whenever a year mismatch is reported for an unresolved citation, the
\* named reference's normalized author equals the citation's normalized author
\* and the reference's year differs from the cited year; an unresolved
\* citation never has the normalized author and the year of a reference.
C22_YearMismatch ==
    apa_op = "validated" =>
        /\ \A i \in 1..Len(result.year_mismatches) :
              LET e == result.year_mismatches[i]
                  c == CitationOf(e.citation)
                  r == refs.references[IndexOfKey(refs.references, e.ref_key)]
              IN /\ c.key \notin matches.matched_citations
                 /\ NormalizeAuthor(r.author) = NormalizeAuthor(c.author)
                 /\ r.year # c.year
                 /\ e.ref_year = r.year
                 /\ e.cited_year = c.year
        /\ \A k \in 1..Len(cites.citations), l \in 1..Len(refs.references) :
              cites.citations[k].key \notin matches.matched_citations =>
                 ~(/\ NormalizeAuthor(refs.references[l].author)
                         = NormalizeAuthor(cites.citations[k].author)
                   /\ refs.references[l].year = cites.citations[k].year)

\* a year mismatch next to a citation of the same author that is resolved
C22_Witness ==
    /\ apa_op = "validated"
    /\ Len(result.year_mismatches) = 1
    /\ Len(result.valid_citations) = 1
    /\ \E k, l \in 1..Len(cites.citations) :
          /\ k # l
          /\ NormalizeAuthor(cites.citations[k].author)
                = NormalizeAuthor(cites.citations[l].author)
          /\ cites.citations[k].key \in matches.matched_citations
          /\ cites.citations[l].key \notin matches.matched_citations

\* C23: check_et_al_misuse derives the author count of a reference as 1 when
\* its full author string contains no '&', and otherwise as the number of
\* authors listed before the '&' plus one: 'Smith, J.' counts 1,
\* 'Smith, J., & Jones, M.' counts 2, 'Smith, J., Jones, M., & Brown, K.'
\* counts 3, and initials of any form never add to the count.
C23_AuthorCount ==
    et_al_op = "checked" =>
        \A a \in AuthorLists :
            et_al_ref.full_author = FullAuthor(a) =>
                /\ ref_author_count = Len(a)
                /\ et_al_result.has_error => et_al_result.author_count = Len(a)

\* the significant words of the citation c: the lowercase words of two letters
\* or more of its normalized author, without and, the, et, al
SignificantWords(c) == CiteWords(normalize_text_for_comparison(c.author))

\* the words of the reference r
ReferenceWords(r) == Words(normalize_text_for_comparison(r.full_author))

\* r is a candidate of the same year whose words include those of c
WordSubset(c, r) ==
    /\ r.year = c.year
    /\ SignificantWords(c) # {}
    /\ SignificantWords(c) \subseteq ReferenceWords(r)

\* c may be resolved without rule d: by its key, by the abbreviation table, by
\* an equal normalized author, as an introduction or by its et al.
WithoutRuleD(c) ==
    \/ c.key \in Keys(refs.references)
    \/ AbbrKey(c) \in DOMAIN refs.abbreviation_map
    \/ Contains(c.author, <<"[">>)
    \/ UsesEtAl(c)
    \/ \E l \in 1..Len(refs.references) :
          /\ refs.references[l].year = c.year
          /\ normalize_text_for_comparison(c.author)
                = normalize_text_for_comparison(refs.references[l].full_author)

\* C24 as claimed: rule d accepts a candidate of the same year whenever the
\* citation's word set is non-empty and a subset of the candidate's, a single
\* significant word included.
C24_RuleD_AnyWord ==
    apa_op = "validated" =>
        \A k \in 1..Len(cites.citations), l \in 1..Len(refs.references) :
            WordSubset(cites.citations[k], refs.references[l])
               => cites.citations[k].key \in matches.matched_citations

\* C24, amended: rule d accepts a candidate of the same year whenever the
\* citation has at least two significant words and all of them are words of
\* the candidate; a citation with a single significant word is not resolved
\* by rule d.
C24_RuleD ==
    apa_op = "validated" =>
        /\ \A k \in 1..Len(cites.citations), l \in 1..Len(refs.references) :
              /\ WordSubset(cites.citations[k], refs.references[l])
              /\ Cardinality(SignificantWords(cites.citations[k])) >= 2
              => cites.citations[k].key \in matches.matched_citations
        /\ \A k \in 1..Len(cites.citations) :
              /\ Cardinality(SignificantWords(cites.citations[k])) <= 1
              /\ ~WithoutRuleD(cites.citations[k])
              => cites.citations[k].key \notin matches.matched_citations

\* a citation of two words resolved by rule d alone, next to a citation whose
\* single word is a word of the same reference and which is left unresolved
C24_Witness ==
    /\ apa_op = "validated"
    /\ \E k, m \in 1..Len(cites.citations), l \in 1..Len(refs.references) :
          /\ WordSubset(cites.citations[k], refs.references[l])
          /\ Cardinality(SignificantWords(cites.citations[k])) = 2
          /\ ~WithoutRuleD(cites.citations[k])
          /\ Target(cites.citations[k].key) = refs.references[l].key
          /\ WordSubset(cites.citations[m], refs.references[l])
          /\ Cardinality(SignificantWords(cites.citations[m])) = 1
          /\ ~WithoutRuleD(cites.citations[m])
          /\ cites.citations[m].key \notin matches.matched_citations


\* ================================================ claims: capitals and frames
\* the author of c is that of r but for its capitals, under the same year
CaseDrift(c, r) ==
    /\ r.year = c.year
    /\ strip(c.author) # r.author
    /\ lower(strip(c.author)) = lower(r.author)

\* the spelling mismatch of c suggests r
SuggestsSpelling(c, r) ==
    \E i \in 1..Len(result.spelling_mismatches) :
        /\ result.spelling_mismatches[i].citation = c.display
        /\ result.spelling_mismatches[i].ref_key = r.key

\* the author of r is that of c as check_spelling_mismatch compares them
Folded(c, r) ==
    normalize_text_for_comparison(strip(c.author))
        = normalize_text_for_comparison(r.author)

\* r is the first entry of the reference table with the author of c, so
\* compared
FirstFolded(c, l) ==
    /\ Folded(c, refs.references[l])
    /\ \A m \in 1..(l - 1) : ~Folded(c, refs.references[m])

\* C25 as claimed: a citation whose author differs from a reference's author
\* only in capitalization (same year) is not resolved as a valid match: it is
\* not an exact key match and it is reported as a spelling mismatch suggesting
\* that reference.
C25_CaseDrift ==
    apa_op = "validated" =>
        \A k \in 1..Len(cites.citations), l \in 1..Len(refs.references) :
            CaseDrift(cites.citations[k], refs.references[l]) =>
                /\ cites.citations[k].key # refs.references[l].key
                /\ cites.citations[k].key \notin matches.matched_citations
                /\ SuggestsSpelling(cites.citations[k], refs.references[l])

\* C25, amended: such a citation is never an exact key match of that
\* reference. When a matching step resolves it (the smart match folds case)
\* it is valid and no mismatch is reported; left unresolved, it is reported
\* as a year mismatch when a reference has its author in its own capitals,
\* and otherwise as one spelling mismatch, suggesting the first entry of the
\* reference table whose author is the citation's as check_spelling_mismatch
\* compares them: that reference, unless an earlier entry is.
C25_CaseDriftFolded ==
    apa_op = "validated" =>
        \A k \in 1..Len(cites.citations), l \in 1..Len(refs.references) :
            CaseDrift(cites.citations[k], refs.references[l]) =>
                /\ cites.citations[k].key # refs.references[l].key
                /\ cites.citations[k].key \in matches.matched_citations =>
                      /\ Outcome(cites.citations[k]) = <<0, 0, 0>>
                      /\ cites.citations[k].display \in Range(result.valid_citations)
                /\ (/\ cites.citations[k].key \notin matches.matched_citations
                    /\ SameAuthor(cites.citations[k])) =>
                      Outcome(cites.citations[k]) = <<1, 0, 0>>
                /\ (/\ cites.citations[k].key \notin matches.matched_citations
                    /\ ~SameAuthor(cites.citations[k])) =>
                      /\ Outcome(cites.citations[k]) = <<0, 1, 0>>
                      /\ \E n \in 1..Len(refs.references) :
                            /\ FirstFolded(cites.citations[k], n)
                            /\ SuggestsSpelling(cites.citations[k], refs.references[n])
                            /\ (\A m \in 1..(l - 1) :
                                    ~Folded(cites.citations[k], refs.references[m]))
                                  => n = l

\* a citation off by a capital from the second reference, left unresolved
\* and reported as a spelling mismatch that suggests the first reference, of
\* another year
C25_Witness ==
    /\ apa_op = "validated"
    /\ Len(refs.references) = 2
    /\ \E k \in 1..Len(cites.citations) :
          /\ CaseDrift(cites.citations[k], refs.references[2])
          /\ ~CaseDrift(cites.citations[k], refs.references[1])
          /\ refs.references[1].year # cites.citations[k].year
          /\ cites.citations[k].key \notin matches.matched_citations
          /\ SuggestsSpelling(cites.citations[k], refs.references[1])
          /\ ~SuggestsSpelling(cites.citations[k], refs.references[2])

\* the body indices of the elements that are no bibliography entry, as the
\* reorder step reads the body
MidOthers == (1..Len(mid)) \ MidEntries

\* C26: the bibliography reorder in renumber is a permutation of the document
\* body: every body element present before the transform is present exactly
\* once afterwards (none lost, none duplicated), and all non-bibliography
\* elements keep their relative order.
C26_ReorderPermutation ==
    renumbered =>
        /\ Len(doc.body) = Len(mid)
        /\ \A k \in 1..Len(mid) :
              Cardinality({j \in 1..Len(doc.body) : doc.body[j].eid = mid[k].eid}) = 1
        /\ \A i, j \in MidOthers :
              i < j => IndexOfEid(doc.body, mid[i].eid) < IndexOfEid(doc.body, mid[j].eid)
        /\ \A i \in MidOthers : doc.body[IndexOfEid(doc.body, mid[i].eid)] = mid[i]

\* a renumber that moved an entry over another one and over an element that
\* is no entry, with a second such element after the entries
C26_Witness ==
    /\ renumbered
    /\ \E i, j, k, l \in 1..Len(mid) :
          /\ i < j /\ j < k /\ k < l
          /\ i \in MidEntries /\ j \in MidOthers /\ k \in MidEntries /\ l \in MidOthers
          /\ IndexOfEid(doc.body, mid[k].eid) < IndexOfEid(doc.body, mid[i].eid)
          /\ IndexOfEid(doc.body, mid[j].eid) # j

\* the citation numbers of a body, occurrence by occurrence, and the entries
\* of its bibliography with their ids
CitationNumbers(body) == get_citations_in_text(body).all_cited

EntryPositions(body) ==
    [k \in 1..Len(body) |-> [eid |-> body[k].eid, entry |-> BibEntry(body, k)]]

\* C27: renumbering is idempotent: running process_document again on a
\* document it has just renumbered produces an empty or identity mapping and
\* changes no citation number and no bibliography position.
C27_Idempotent ==
    op = "again" =>
        /\ \A n \in DOMAIN mapping : mapping[n] = n
        /\ CitationNumbers(doc.body) = CitationNumbers(doc0.body)
        /\ EntryPositions(doc.body) = EntryPositions(doc0.body)

\* the number lists of the citation occurrences of a body, in discovery order
CitationOccurrences(body) == Occurrences(iter_document_paragraphs(body))

\* C28: the two copies of the numeric renumber transform agree: for every
\* document, ReferenceProcessor.renumber in src/Referencenumvalidation.py and
\* in src/app_server.py return the same mapping and leave the same citation
\* numbers in every citation occurrence and the same bibliography order.
C28_CopiesAgree ==
    op = "copy" =>
        /\ copy_run.mapping = mapping
        /\ CitationOccurrences(copy_run.doc.body) = CitationOccurrences(doc.body)
        /\ EntryPositions(copy_run.doc.body) = EntryPositions(doc.body)

\* the key of the bibliography entry read from paragraph i
EntryKey(i) == normalize_citation_key(paragraphs[i].ref.author, paragraphs[i].ref.year)

\* the paragraphs that hold an entry: valid references between the markers
\* of a document of SameKeyDocuments
EntryParas == {i \in 2..(Len(paragraphs) - 1) : paragraphs[i].ref.valid}

\* the entries that come after an entry of the same key
LaterEntries == {i \in EntryParas : \E f \in EntryParas : f < i /\ EntryKey(f) = EntryKey(i)}

\* the first entries of their keys
FirstEntries == EntryParas \ LaterEntries

\* the document with every later entry of a key left blank
WithoutLater ==
    [i \in 1..Len(paragraphs) |->
        IF i \in LaterEntries THEN [text |-> <<>>, cites |-> <<>>, ref |-> NoRef]
        ELSE paragraphs[i]]

\* the texts duplicate detection compares: those stored for the keys
ComparedTexts ==
    {refs.reference_details[k].text : k \in DOMAIN refs.reference_details}

\* C29: in the name-year path the reference table keeps the first
\* bibliography entry seen for each normalized key: a later entry with the
\* same key changes neither the stored record, nor its details, nor the
\* abbreviation table, and therefore never takes part in duplicate detection.
C29_FirstEntryKept ==
    apa_op = "validated" =>
        /\ Keys(refs.references) = {EntryKey(i) : i \in FirstEntries}
        /\ \A f \in FirstEntries :
              LET r == refs.references[IndexOfKey(refs.references, EntryKey(f))]
                  d == refs.reference_details[EntryKey(f)]
              IN /\ r.author = paragraphs[f].ref.author
                 /\ r.year = paragraphs[f].ref.year
                 /\ r.full_author = paragraphs[f].ref.full_author
                 /\ r.abbreviations = paragraphs[f].ref.abbreviations
                 /\ d.line = f
                 /\ d.text = Snippet(strip(paragraphs[f].text))
        /\ \A a \in DOMAIN refs.abbreviation_map :
              \E f \in FirstEntries :
                 /\ refs.abbreviation_map[a] = EntryKey(f)
                 /\ \E n \in 1..Len(paragraphs[f].ref.abbreviations) :
                       a = paragraphs[f].ref.abbreviations[n] \o <<"|">> \o paragraphs[f].ref.year
        /\ refs = find_references_in_bibliography(WithoutLater)
        /\ ComparedTexts = {Snippet(strip(paragraphs[f].text)) : f \in FirstEntries}
        /\ \A n \in 1..Len(result.duplicates) :
              /\ result.duplicates[n].id \in {EntryKey(f) : f \in FirstEntries}
              /\ result.duplicates[n].duplicate_of \in {EntryKey(f) : f \in FirstEntries}
              /\ result.duplicates[n].id # result.duplicates[n].duplicate_of
              /\ \E f \in FirstEntries :
                    /\ EntryKey(f) = result.duplicates[n].id
                    /\ result.duplicates[n].text = Snippet(strip(paragraphs[f].text))

\* a later entry of a stored key, with another full author, whose text is a
\* duplicate of a third entry's: the entry is not stored and no duplicate is
\* reported
C29_Witness ==
    /\ apa_op = "validated"
    /\ \E f, l, t \in EntryParas :
          /\ f < l /\ l < t
          /\ EntryKey(f) = EntryKey(l)
          /\ EntryKey(t) # EntryKey(f)
          /\ paragraphs[l].ref.full_author # paragraphs[f].ref.full_author
          /\ Similar(strip(paragraphs[l].text), strip(paragraphs[t].text))
          /\ result.duplicates = <<>>

\* the shorter and the longer of two lengths
Shorter(la, lb) == IF la < lb THEN la ELSE lb

Longer(la, lb) == IF la < lb THEN lb ELSE la

\* the pre-filter skips the pair: both texts non-empty, min / max < 0.6
Skipped(a, b) ==
    /\ Len(a) > 0
    /\ Len(b) > 0
    /\ 10 * Shorter(Len(a), Len(b)) < 6 * Longer(Len(a), Len(b))

\* the 0.85 threshold alone would report the pair
AboveThreshold(a, b) ==
    /\ Len(a) > 0
    /\ Len(b) > 0
    /\ 100 * Ratio(a, b)[1] > 85 * Ratio(a, b)[2]

\* the ratio of every pair the pre-filter skips is 2 * M / (la + lb) with
\* M <= min(la, lb) and does not exceed 0.85, and the records are those of the
\* pairs above the threshold, whatever their lengths
PreFilterSound(records, entries) ==
    /\ \A i, j \in 1..Len(entries) :
          (i < j /\ Skipped(entries[i].text, entries[j].text)) =>
             /\ Ratio(entries[i].text, entries[j].text)[1]
                   <= 2 * Shorter(Len(entries[i].text), Len(entries[j].text))
             /\ ~AboveThreshold(entries[i].text, entries[j].text)
    /\ \A i, j \in 1..Len(entries) :
          Count(records, LAMBDA d : d.id = entries[j].id
                                    /\ d.duplicate_of = entries[i].id)
             = IF i < j /\ AboveThreshold(entries[i].text, entries[j].text)
               THEN 1 ELSE 0

\* C30: the length-ratio pre-filter of duplicate detection is sound: for any
\* two non-empty texts of lengths la and lb with min(la,lb)/max(la,lb) < 0.6,
\* the similarity ratio 2*M/(la+lb) with M <= min(la,lb) matching characters
\* cannot exceed 0.85, so skipping such pairs never removes a pair that the
\* 0.85 threshold would have reported.
C30_PreFilterSound ==
    /\ dup_op = "found" => PreFilterSound(duplicates, NumberedEntries)
    /\ apa_op = "validated" => PreFilterSound(result.duplicates, NameYearEntries)

\* both detectors have run on a bibliography with a pair the pre-filter skips
\* and a pair that is reported; the shorter text of a skipped pair is matched
\* in the longer but for one character
C30_Witness ==
    /\ dup_op = "found"
    /\ apa_op = "validated"
    /\ Len(duplicates) >= 1
    /\ Len(result.duplicates) >= 1
    /\ \E i, j \in 1..Len(NameYearEntries) :
          i < j /\ Skipped(NameYearEntries[i].text, NameYearEntries[j].text)
    /\ \E i, j \in 1..Len(NumberedEntries) :
          /\ i < j
          /\ Skipped(NumberedEntries[i].text, NumberedEntries[j].text)
          /\ Ratio(NumberedEntries[i].text, NumberedEntries[j].text)[1]
                >= 2 * Shorter(Len(NumberedEntries[i].text), Len(NumberedEntries[j].text)) - 2

====
